---- MODULE Spec2Model ----
(***************************************************************************)
(* Model of the sc0710 HDMI capture driver core: the I2C bus transaction   *)
(* engine and the HDMI signal state machine (sc0710-i2c.c), the DMA resync *)
(* orchestrator, and the per-client streaming bookkeeping                  *)
(* (sc0710-video.c).                                                        *)
(***************************************************************************)
EXTENDS Integers, Sequences, FiniteSets, TLC

(***************************************************************************)
(* Format catalog (sc0710-video.c, formats[]; SUPPORT_INTERLACED is 0).    *)
(* A format pointer is an index into the table; NULL is 0.                 *)
(***************************************************************************)
NULL == 0

formats ==
  <<
     [timingH |-> 800, timingV |-> 525, width |-> 640, height |-> 480, interlaced |-> 0, fpsX100 |-> 6000, name |-> "640x480p60"],
     [timingH |-> 832, timingV |-> 520, width |-> 640, height |-> 480, interlaced |-> 0, fpsX100 |-> 7500, name |-> "640x480p75"],
     [timingH |-> 858, timingV |-> 525, width |-> 720, height |-> 480, interlaced |-> 0, fpsX100 |-> 5994, name |-> "720x480p59.94"],
     [timingH |-> 864, timingV |-> 625, width |-> 720, height |-> 576, interlaced |-> 0, fpsX100 |-> 5000, name |-> "720x576p50"],
     [timingH |-> 1056, timingV |-> 628, width |-> 800, height |-> 600, interlaced |-> 0, fpsX100 |-> 6000, name |-> "800x600p60"],
     [timingH |-> 1040, timingV |-> 666, width |-> 800, height |-> 600, interlaced |-> 0, fpsX100 |-> 7500, name |-> "800x600p75"],
     [timingH |-> 960, timingV |-> 636, width |-> 800, height |-> 600, interlaced |-> 0, fpsX100 |-> 11997, name |-> "800x600p119.97"],
     [timingH |-> 1056, timingV |-> 636, width |-> 800, height |-> 600, interlaced |-> 0, fpsX100 |-> 11988, name |-> "800x600p119.88"],
     [timingH |-> 1056, timingV |-> 636, width |-> 800, height |-> 600, interlaced |-> 0, fpsX100 |-> 12000, name |-> "800x600p120"],
     [timingH |-> 1344, timingV |-> 806, width |-> 1024, height |-> 768, interlaced |-> 0, fpsX100 |-> 6000, name |-> "1024x768p60"],
     [timingH |-> 1312, timingV |-> 800, width |-> 1024, height |-> 768, interlaced |-> 0, fpsX100 |-> 7500, name |-> "1024x768p75"],
     [timingH |-> 1980, timingV |-> 750, width |-> 1280, height |-> 720, interlaced |-> 0, fpsX100 |-> 5000, name |-> "1280x720p50"],
     [timingH |-> 1650, timingV |-> 750, width |-> 1280, height |-> 720, interlaced |-> 0, fpsX100 |-> 5994, name |-> "1280x720p59.94"],
     [timingH |-> 1650, timingV |-> 750, width |-> 1280, height |-> 720, interlaced |-> 0, fpsX100 |-> 6000, name |-> "1280x720p60"],
     [timingH |-> 1688, timingV |-> 1066, width |-> 1280, height |-> 1024, interlaced |-> 0, fpsX100 |-> 6000, name |-> "1280x1024p60"],
     [timingH |-> 1688, timingV |-> 1066, width |-> 1280, height |-> 1024, interlaced |-> 0, fpsX100 |-> 7500, name |-> "1280x1024p75"],
     [timingH |-> 2750, timingV |-> 1125, width |-> 1920, height |-> 1080, interlaced |-> 0, fpsX100 |-> 2400, name |-> "1920x1080p24"],
     [timingH |-> 2640, timingV |-> 1125, width |-> 1920, height |-> 1080, interlaced |-> 0, fpsX100 |-> 2500, name |-> "1920x1080p25"],
     [timingH |-> 2200, timingV |-> 1125, width |-> 1920, height |-> 1080, interlaced |-> 0, fpsX100 |-> 3000, name |-> "1920x1080p30"],
     [timingH |-> 2640, timingV |-> 1125, width |-> 1920, height |-> 1080, interlaced |-> 0, fpsX100 |-> 5000, name |-> "1920x1080p50"],
     [timingH |-> 2200, timingV |-> 1125, width |-> 1920, height |-> 1080, interlaced |-> 0, fpsX100 |-> 6000, name |-> "1920x1080p60"],
     [timingH |-> 2200, timingV |-> 1125, width |-> 1920, height |-> 1080, interlaced |-> 0, fpsX100 |-> 11988, name |-> "1920x1080p119.88"],
     [timingH |-> 2200, timingV |-> 1125, width |-> 1920, height |-> 1080, interlaced |-> 0, fpsX100 |-> 12000, name |-> "1920x1080p120"],
     [timingH |-> 2000, timingV |-> 1144, width |-> 1920, height |-> 1080, interlaced |-> 0, fpsX100 |-> 12000, name |-> "1920x1080p120cvt"],
     [timingH |-> 2080, timingV |-> 1310, width |-> 1920, height |-> 1080, interlaced |-> 0, fpsX100 |-> 24000, name |-> "1920x1080p240"],
     [timingH |-> 2080, timingV |-> 1310, width |-> 1920, height |-> 1080, interlaced |-> 0, fpsX100 |-> 23976, name |-> "1920x1080p239.76"],
     [timingH |-> 2592, timingV |-> 1245, width |-> 1920, height |-> 1200, interlaced |-> 0, fpsX100 |-> 6000, name |-> "1920x1200p60"],
     [timingH |-> 2080, timingV |-> 1235, width |-> 1920, height |-> 1200, interlaced |-> 0, fpsX100 |-> 6000, name |-> "1920x1200p60rb"],
     [timingH |-> 2720, timingV |-> 1481, width |-> 2560, height |-> 1440, interlaced |-> 0, fpsX100 |-> 12000, name |-> "2560x1440p120a"],
     [timingH |-> 2720, timingV |-> 1524, width |-> 2560, height |-> 1440, interlaced |-> 0, fpsX100 |-> 12000, name |-> "2560x1440p120b"],
     [timingH |-> 2720, timingV |-> 1525, width |-> 2560, height |-> 1440, interlaced |-> 0, fpsX100 |-> 12000, name |-> "2560x1440p120c"],
     [timingH |-> 2720, timingV |-> 1510, width |-> 2560, height |-> 1440, interlaced |-> 0, fpsX100 |-> 12000, name |-> "2560x1440p120alt"],
     [timingH |-> 2640, timingV |-> 1490, width |-> 2560, height |-> 1440, interlaced |-> 0, fpsX100 |-> 12000, name |-> "2560x1440p120cvt"],
     [timingH |-> 2720, timingV |-> 1481, width |-> 2560, height |-> 1440, interlaced |-> 0, fpsX100 |-> 6000, name |-> "2560x1440p60"],
     [timingH |-> 2720, timingV |-> 1500, width |-> 2560, height |-> 1440, interlaced |-> 0, fpsX100 |-> 6000, name |-> "2560x1440p60alt"],
     [timingH |-> 2720, timingV |-> 1527, width |-> 2560, height |-> 1440, interlaced |-> 0, fpsX100 |-> 14400, name |-> "2560x1440p144"],
     [timingH |-> 5500, timingV |-> 2250, width |-> 3840, height |-> 2160, interlaced |-> 0, fpsX100 |-> 2400, name |-> "3840x2160p24"],
     [timingH |-> 5280, timingV |-> 2250, width |-> 3840, height |-> 2160, interlaced |-> 0, fpsX100 |-> 2500, name |-> "3840x2160p25"],
     [timingH |-> 4400, timingV |-> 2250, width |-> 3840, height |-> 2160, interlaced |-> 0, fpsX100 |-> 3000, name |-> "3840x2160p30"],
     [timingH |-> 5280, timingV |-> 2250, width |-> 3840, height |-> 2160, interlaced |-> 0, fpsX100 |-> 5000, name |-> "3840x2160p50"],
     [timingH |-> 4400, timingV |-> 2250, width |-> 3840, height |-> 2160, interlaced |-> 0, fpsX100 |-> 5994, name |-> "3840x2160p59.94"],
     [timingH |-> 4400, timingV |-> 2250, width |-> 3840, height |-> 2160, interlaced |-> 0, fpsX100 |-> 6000, name |-> "3840x2160p60"],
     [timingH |-> 5500, timingV |-> 2250, width |-> 3840, height |-> 2160, interlaced |-> 0, fpsX100 |-> 4800, name |-> "3840x2160p48"],
     [timingH |-> 4400, timingV |-> 2250, width |-> 4096, height |-> 2160, interlaced |-> 0, fpsX100 |-> 2400, name |-> "4096x2160p24"],
     [timingH |-> 4400, timingV |-> 2250, width |-> 4096, height |-> 2160, interlaced |-> 0, fpsX100 |-> 2500, name |-> "4096x2160p25"],
     [timingH |-> 4400, timingV |-> 2250, width |-> 4096, height |-> 2160, interlaced |-> 0, fpsX100 |-> 3000, name |-> "4096x2160p30"],
     [timingH |-> 4400, timingV |-> 2250, width |-> 4096, height |-> 2160, interlaced |-> 0, fpsX100 |-> 5000, name |-> "4096x2160p50"],
     [timingH |-> 4400, timingV |-> 2250, width |-> 4096, height |-> 2160, interlaced |-> 0, fpsX100 |-> 6000, name |-> "4096x2160p60"]
  >>

default_no_signal_format ==
  [timingH |-> 2200, timingV |-> 1125, width |-> 1920, height |-> 1080,
   interlaced |-> 0, fpsX100 |-> 6000, name |-> "No Signal (1920x1080)"]

\* framesize as computed by sc0710_format_initialize: width * 2 * height
framesize(f) == f.width * 2 * f.height

RECURSIVE find_by_timing_loop(_, _, _)
find_by_timing_loop(i, timingH, timingV) ==
  IF i > Len(formats) THEN NULL
  ELSE IF formats[i].timingH = timingH /\ formats[i].timingV = timingV THEN i
  ELSE find_by_timing_loop(i + 1, timingH, timingV)

\* a scan that starts at the second table entry
format_find_by_timing_from_second(timingH, timingV) ==
  find_by_timing_loop(2, timingH, timingV)

sc0710_format_find_by_timing(timingH, timingV) ==
  find_by_timing_loop(1, timingH, timingV)

\* best_diff starts at 0xFFFFFFFF, which exceeds every difference of two
\* rates the model forms; it is written -1 here and compared accordingly
BestDiffInit == 0 - 1

\* a comparison that keeps the candidate farthest from the target
diff_above_best(diff, best_diff) == best_diff = BestDiffInit \/ diff > best_diff

diff_below_best(diff, best_diff) == best_diff = BestDiffInit \/ diff < best_diff

RECURSIVE find_by_timing_and_rate_loop(_, _, _, _, _, _)
find_by_timing_and_rate_loop(i, timingH, timingV, target_fps, best_fmt, best_diff) ==
  IF i > Len(formats) THEN best_fmt
  ELSE IF formats[i].timingH = timingH /\ formats[i].timingV = timingV THEN
    LET fps  == formats[i].fpsX100 \div 100
        diff == IF fps > target_fps THEN fps - target_fps ELSE target_fps - fps
    IN  IF target_fps = 0 THEN i
        ELSE IF diff = 0 THEN i
        ELSE IF diff_below_best(diff, best_diff)
             THEN find_by_timing_and_rate_loop(i + 1, timingH, timingV, target_fps, i, diff)
             ELSE find_by_timing_and_rate_loop(i + 1, timingH, timingV, target_fps, best_fmt, best_diff)
  ELSE find_by_timing_and_rate_loop(i + 1, timingH, timingV, target_fps, best_fmt, best_diff)

sc0710_format_find_by_timing_and_rate(timingH, timingV, target_fps) ==
  find_by_timing_and_rate_loop(1, timingH, timingV, target_fps, NULL, BestDiffInit)

(***************************************************************************)
(* Bounds of the model.                                                    *)
(***************************************************************************)
\* polls with no lock and no timing are explored up to this counter value
MaxNoTimingCount == 4

(***************************************************************************)
(* State.                                                                  *)
(***************************************************************************)
VARIABLES
  dev,               \* Device Signal State (struct sc0710_dev fields)
  signalMutex,       \* holder of dev->signalMutex, or "free"
  poll_pc,           \* position of the HDMI status poll thread
  was_locked,        \* local of sc0710_i2c_read_hdmi_status
  timing_changed,    \* local of sc0710_i2c_read_hdmi_status
  fps_target,        \* local of sc0710_i2c_read_hdmi_status, 0 where not computed
  ret,               \* local of sc0710_i2c_read_hdmi_status
  rbuf,              \* response buffer of sc0710_i2c_read_hdmi_status
  poll_exit,         \* return statement __sc0710_i2c_writeread left through
  pre,               \* totals and hints stored in dev when the poll began
  n_sleep,           \* stabilization sleeps performed by the current poll
  n_resync,          \* sc0710_reset_dma_frame_sync calls of the current poll
  slept_first,       \* the stabilization sleep preceded the last resync call
  zero_run,          \* consecutive no-lock/no-timing polls, begun at counter 0
  prev_run,          \* zero_run before the last poll
  prev_ok_lock,      \* lock byte class read by the previous completed read
  scenario,          \* polls of the attach / lock / three-empty-polls scenario seen
  ch_state,          \* ch->state of the video channel
  ch_lock,           \* holder of ch->lock, or "free"
  streaming_refcount,\* ch->streaming_refcount
  timer_pending,     \* ch->timeout is armed
  dma_was_running,   \* local of sc0710_reset_dma_frame_sync
  has_streaming_clients, \* local of sc0710_reset_dma_frame_sync
  rs_log,            \* register writes and calls of the resync in progress, in order
  thr_pc,            \* position of the status reader ("rd") and MCU writer ("wr")
  thr_ret,           \* value the reader / writer call returned
  bus_pc,            \* position inside the bus transaction in progress
  bus_owner,         \* thread executing the bus transaction, or "none"
  cnt,               \* loop counter of __sc0710_i2c_writeread / didack
  rd_cnt,            \* loop counter of busread
  i2c_readlen,       \* local of __sc0710_i2c_writeread
  i2c_subaddr,       \* local of __sc0710_i2c_writeread
  bus_rbuf,          \* bytes stored into the caller's response buffer
  wbuf,              \* wbuf of sc0710_i2c_write_mcu (sub-address, payload)
  wr_i,              \* loop index i of sc0710_i2c_write
  bus_ret,           \* value returned by the bus function
  bus_exit,          \* return statement the bus function left through
  bus_writes,        \* register writes of the transaction, in order
  saw_addr_ack,      \* the status register read 0x44 in the address wait
  polls,             \* status-register reads of the wait loop in progress
  cl_pc,             \* position of each capture client
  cl_streaming,      \* client->streaming
  cl_refcount,       \* local refcount of start_streaming / stop_streaming
  cl_locked,         \* the call came through video_ioctl2 (holds ch->lock)
  cl_resize_ok,      \* result of the sc0710_dma_channels_resize call in progress
  cl_fifo,           \* client->buffer_list, oldest buffer first
  buf_status,        \* vb2 state of each buffer of each client
  tick_pc,           \* position of the timer callback sc0710_vid_timeout
  tick_left,         \* clients list_for_each_entry has still to visit
  any_streaming,     \* local of sc0710_vid_timeout
  client_list,       \* ch->client_list, in list order
  client_list_lock,  \* holder of ch->client_list_lock, or "free"
  buffer_lock,       \* holder of each client->buffer_lock, or "free"
  buf_plane,         \* plane size of each client's buffers, 0 before queue setup
  last_fill,         \* geometry, payload, plane size and stamp of the last placeholder
  frame_sequence,    \* ch->frame_sequence
  fq_pc,             \* position of a caller of the format lookups
  fq_timingH,        \* argument timingH of the lookup
  fq_timingV,        \* argument timingV of the lookup
  fq_target_fps,     \* argument target_fps of the lookup
  fq_fmt,            \* result of sc0710_format_find_by_timing_and_rate
  fq_fmt0,           \* result of sc0710_format_find_by_timing
  ioctl_pc,          \* position of a caller of the format query ioctls
  ioctl_op,          \* ioctl handler in progress, or "none"
  ioctl_tested,      \* dev->fmt as the null test of the handler read it
  ioctl_used         \* values of dev->fmt the handler dereferenced, in order

sigvars   == <<dev, signalMutex>>
pollvars  == <<poll_pc, was_locked, timing_changed, fps_target, ret, rbuf, poll_exit>>
ghostvars == <<pre, n_sleep, n_resync, slept_first, zero_run, prev_run, prev_ok_lock,
               scenario>>
chvars    == <<ch_state, ch_lock, streaming_refcount, timer_pending>>
rsvars    == <<dma_was_running, has_streaming_clients, rs_log>>
busvars   == <<thr_pc, thr_ret, bus_pc, bus_owner, cnt, rd_cnt, i2c_readlen,
               i2c_subaddr, bus_rbuf, wbuf, wr_i, bus_ret, bus_exit, bus_writes,
               saw_addr_ack, polls>>
clvars    == <<cl_pc, cl_streaming, cl_refcount, cl_locked, cl_resize_ok, cl_fifo,
               buf_status>>
findvars  == <<fq_pc, fq_timingH, fq_timingV, fq_target_fps, fq_fmt, fq_fmt0>>
tmvars    == <<tick_pc, tick_left, any_streaming, client_list, client_list_lock,
               buffer_lock, buf_plane, last_fill, frame_sequence>>
iovars    == <<ioctl_pc, ioctl_op, ioctl_tested, ioctl_used>>
othervars == <<busvars, clvars, findvars, tmvars, iovars>>
vars      == <<sigvars, pollvars, ghostvars, chvars, rsvars, busvars, clvars, findvars,
               tmvars, iovars>>

(***************************************************************************)
(* Status block returned by the MCU at sub-address 0 (0x14 bytes).         *)
(***************************************************************************)
RBufLen == 20

ZeroBlock == [i \in 0..(RBufLen - 1) |-> 0]

\* little-endian layout decoded at sc0710-i2c.c:416-436
StatusBlock(totalV, totalH, height, width, hint_interval, hint_flags, cs) ==
  [i \in 0..(RBufLen - 1) |->
     CASE i = 4  -> totalV % 256
       [] i = 5  -> totalV \div 256
       [] i = 6  -> totalH % 256
       [] i = 7  -> totalH \div 256
       [] i = 8  -> height % 256
       [] i = 9  -> height \div 256
       [] i = 10 -> width % 256
       [] i = 11 -> width \div 256
       [] i = 12 -> hint_interval
       [] i = 13 -> hint_flags
       [] i = 15 -> cs
       [] OTHER  -> 0]

\* (total_h, total_v, visible width, visible height) the source may present
Timings ==
  { <<2200, 1125, 1920, 1080>>,
    <<4400, 2250, 3840, 2160>>,
    <<4400, 2250, 4096, 2160>>,     \* DCI 4K: the totals of UHD 4K
    <<3000, 1500, 2000, 1100>>,     \* not in the catalog
    <<0, 0, 1920, 1080>> }          \* lock reported before totals are valid

\* (interval byte 0x0c, flags byte 0x0d)
Hints == { <<60, 0>>, <<120, 16>>, <<120, 80>>, <<0, 0>> }

LockedBlocks ==
  { StatusBlock(t[2], t[1], t[4], t[3], h[1], h[2], 0) : t \in Timings, h \in Hints }

UnlockedBlocks ==
  { ZeroBlock,
    StatusBlock(1125, 2200, 0, 0, 0, 0, 0),
    StatusBlock(0, 2200, 0, 1920, 60, 0, 0) }

StatusBlocks == LockedBlocks \cup UnlockedBlocks

(***************************************************************************)
(* sc0710_i2c_read_hdmi_status: decoding of the status block.              *)
(***************************************************************************)
colorimetry_of(b) ==
  CASE (b[13] \div 16) % 4 = 1 -> "BT_709"
    [] (b[13] \div 16) % 4 = 2 -> "BT_601"
    [] (b[13] \div 16) % 4 = 3 -> "BT_2020"
    [] OTHER -> "BT_UNDEFINED"

colorspace_of(b) ==
  CASE b[15] = 0 -> "CS_YUV_YCRCB_422_420"
    [] b[15] = 1 -> "CS_YUV_YCRCB_444"
    [] b[15] = 2 -> "CS_RGB_444"
    [] OTHER -> "CS_UNDEFINED"

new_pixelLineV(b) == b[5] * 256 + b[4]
new_pixelLineH(b) == b[7] * 256 + b[6]

\* sc0710-i2c.c:420-430
detect_timing_change(d, wl, b) ==
  /\ wl
  /\ d.pixelLineH > 0
  /\ d.pixelLineV > 0
  /\ \/ new_pixelLineH(b) # d.pixelLineH
     \/ new_pixelLineV(b) # d.pixelLineV
     \/ b[12] # d.last_hint_interval
     \/ b[13] # d.last_hint_flags

\* a table that yields 30 only for the flags byte 0x50
fps_target_of_flags_0x50_only(hint_interval, hint_flags) ==
  IF hint_interval = 120
  THEN (IF hint_flags = 16 THEN 120 ELSE IF hint_flags = 80 THEN 30 ELSE 0)
  ELSE IF hint_interval = 60 THEN 60 ELSE 0

\* sc0710-i2c.c:464-471
fps_target_of(hint_interval, hint_flags) ==
  IF hint_interval = 120
  THEN (IF hint_flags = 16 THEN 120 ELSE 30)
  ELSE IF hint_interval = 60 THEN 60 ELSE 0

\* a locked branch that resolves the format on the first lock only
locked_update_first_lock_only(d, wl, b) ==
  LET tc    == detect_timing_change(d, wl, b)
      il    == b[13] % 2
      h0    == b[9] * 256 + b[8]
      nfmt  == IF ~wl
               THEN sc0710_format_find_by_timing_and_rate(
                      new_pixelLineH(b), new_pixelLineV(b), fps_target_of(b[12], b[13]))
               ELSE d.fmt
  IN  [d EXCEPT
        !.locked = TRUE,
        !.cable_connected = TRUE,
        !.unlocked_no_timing_count = 0,
        !.colorimetry = colorimetry_of(b),
        !.colorspace = colorspace_of(b),
        !.eotf = "EOTF_SDR",
        !.last_hint_interval = b[12],
        !.last_hint_flags = b[13],
        !.width = b[11] * 256 + b[10],
        !.height = IF il = 1 THEN h0 * 2 ELSE h0,
        !.pixelLineV = new_pixelLineV(b),
        !.pixelLineH = new_pixelLineH(b),
        !.interlaced = il,
        !.fmt = nfmt,
        !.last_fmt = IF nfmt # NULL THEN nfmt ELSE d.last_fmt]

\* sc0710-i2c.c:370-493, the branch taken when rbuf[8] is nonzero
locked_update(d, wl, b) ==
  LET tc    == detect_timing_change(d, wl, b)
      il    == b[13] % 2
      h0    == b[9] * 256 + b[8]
      nfmt  == IF tc \/ ~wl
               THEN sc0710_format_find_by_timing_and_rate(
                      new_pixelLineH(b), new_pixelLineV(b), fps_target_of(b[12], b[13]))
               ELSE d.fmt
  IN  [d EXCEPT
        !.locked = TRUE,
        !.cable_connected = TRUE,
        !.unlocked_no_timing_count = 0,
        !.colorimetry = colorimetry_of(b),
        !.colorspace = colorspace_of(b),
        !.eotf = "EOTF_SDR",
        !.last_hint_interval = b[12],
        !.last_hint_flags = b[13],
        !.width = b[11] * 256 + b[10],
        !.height = IF il = 1 THEN h0 * 2 ELSE h0,
        !.pixelLineV = new_pixelLineV(b),
        !.pixelLineH = new_pixelLineH(b),
        !.interlaced = il,
        !.fmt = nfmt,
        !.last_fmt = IF nfmt # NULL THEN nfmt ELSE d.last_fmt]

\* a signal loss that also forgets the last-known-good format
clear_signal_and_last_fmt(d) ==
  [d EXCEPT
    !.fmt = NULL,
    !.last_fmt = NULL,
    !.locked = FALSE,
    !.width = 0,
    !.height = 0,
    !.pixelLineH = 0,
    !.pixelLineV = 0,
    !.interlaced = 0,
    !.colorimetry = "BT_UNDEFINED",
    !.colorspace = "CS_UNDEFINED",
    !.eotf = "EOTF_SDR"]

\* sc0710-i2c.c:545-555 and 567-577
clear_signal(d) ==
  [d EXCEPT
    !.fmt = NULL,
    !.locked = FALSE,
    !.width = 0,
    !.height = 0,
    !.pixelLineH = 0,
    !.pixelLineV = 0,
    !.interlaced = 0,
    !.colorimetry = "BT_UNDEFINED",
    !.colorspace = "CS_UNDEFINED",
    !.eotf = "EOTF_SDR"]

timing_present(b) == b[4] # 0 \/ b[5] # 0 \/ b[6] # 0 \/ b[7] # 0

\* the confirmation threshold raised to four polls
cable_removed_after_four(count) == count >= 4

\* the confirmation threshold lowered to two polls
cable_removed_after_two(count) == count >= 2

\* sc0710-i2c.c:564
cable_removed(count) == count >= 3

\* sc0710-i2c.c:529-586, the branch taken when rbuf[8] is zero
unlocked_update(d, b) ==
  IF timing_present(b)
  THEN clear_signal([d EXCEPT !.cable_connected = TRUE,
                              !.unlocked_no_timing_count = 0])
  ELSE LET c == d.unlocked_no_timing_count + 1
       IN  IF cable_removed(c)
           THEN clear_signal([d EXCEPT !.unlocked_no_timing_count = c,
                                       !.cable_connected = FALSE])
           ELSE [d EXCEPT !.unlocked_no_timing_count = c,
                          !.cable_connected = TRUE]

\* the timing-change disjunct dropped
need_resync_on_restore_only(wl, d, tc) == ~wl /\ d.locked

\* the previous lock state ignored
need_resync_on_every_lock(wl, d, tc) == d.locked \/ tc

\* sc0710-i2c.c:496
need_resync(wl, d, tc) == (~wl /\ d.locked) \/ tc

(***************************************************************************)
(* Return statements of __sc0710_i2c_writeread and the value each returns. *)
(***************************************************************************)
ETIMEDOUT == 110

WriteReadExits ==
  { "addr_deadline", "addr_noack", "sub_deadline",
    "read_deadline", "bad_completion", "ok" }

writeread_ret(exit) ==
  CASE exit = "addr_deadline"  -> 0
    [] exit = "addr_noack"     -> 0
    [] exit = "sub_deadline"   -> 0
    [] exit = "read_deadline"  -> 0 - ETIMEDOUT
    [] exit = "bad_completion" -> 0 - 1
    [] exit = "ok"             -> 0

\* exits that leave through the read phase with the whole buffer stored
ExitsAfterRead == { "bad_completion", "ok" }

(***************************************************************************)
(* mutex_lock: the caller proceeds once the mutex is free.                 *)
(***************************************************************************)
\* a lock that lets every caller through
mutex_lock_ignored(m) == TRUE

mutex_lock_acquires(m) == m = "free"

(***************************************************************************)
(* sc0710_i2c_read_hdmi_status (the HDMI poll thread).                     *)
(***************************************************************************)
lock_class(b) == IF b[8] # 0 THEN "nonzero" ELSE "zero"

no_lock_no_timing(r, b) == r >= 0 /\ b[8] = 0 /\ ~timing_present(b)

\* Device Signal State of a freshly attached device
DevInit ==
  [locked |-> FALSE, cable_connected |-> FALSE, unlocked_no_timing_count |-> 0,
   width |-> 0, height |-> 0, pixelLineH |-> 0, pixelLineV |-> 0,
   interlaced |-> 0, colorimetry |-> "BT_UNDEFINED", colorspace |-> "CS_UNDEFINED",
   eotf |-> "EOTF_SDR", last_hint_interval |-> 0, last_hint_flags |-> 0,
   fmt |-> NULL, last_fmt |-> NULL]

\* progress through the end-to-end scenario: a poll that begins in the
\* attach state and reads lock byte 1, totals (2200,1125) and a 60 Hz hint
\* (step 1), followed by polls that read lock byte 0 and all-zero timing
\* bytes (steps 2, 3, 4); any other poll leaves the scenario
scenario_step(n, d, r, b) ==
  IF /\ r >= 0 /\ b[8] = 1 /\ d = DevInit
     /\ new_pixelLineH(b) = 2200 /\ new_pixelLineV(b) = 1125
     /\ fps_target_of(b[12], b[13]) = 60
  THEN 1
  ELSE IF n \in 1..3 /\ no_lock_no_timing(r, b) THEN n + 1
  ELSE 0

\* mutex_lock(&dev->signalMutex); was_locked = dev->locked
read_hdmi_status_lock ==
  /\ poll_pc = "idle"
  /\ mutex_lock_acquires(signalMutex)
  /\ signalMutex' = "poll"
  /\ was_locked' = dev.locked
  /\ rbuf' = ZeroBlock
  /\ timing_changed' = FALSE
  /\ fps_target' = 0
  /\ ret' = 0
  /\ poll_exit' = "none"
  /\ poll_pc' = "i2c"
  /\ pre' = [pixelLineH |-> dev.pixelLineH, pixelLineV |-> dev.pixelLineV,
             hint_interval |-> dev.last_hint_interval,
             hint_flags |-> dev.last_hint_flags]
  /\ n_sleep' = 0
  /\ n_resync' = 0
  /\ slept_first' = FALSE
  /\ prev_ok_lock' = IF poll_exit = "ok" THEN lock_class(rbuf) ELSE prev_ok_lock
  /\ UNCHANGED othervars
  /\ UNCHANGED <<dev, zero_run, prev_run, scenario, chvars, rsvars>>

\* a poll that keeps the signal lock when it goes on to sleep and resync
mutex_held_into_sleep(next_pc) == IF next_pc = "msleep" THEN "poll" ELSE "free"

\* mutex_unlock(&dev->signalMutex) of the path taken: sc0710-i2c.c:366 (bus
\* failure), 499 (before the sleep and the resync), 596 (all other paths)
mutex_after_update(next_pc) == "free"

\* the bus transaction and the update of the signal state under the lock,
\* up to the mutex_unlock of the path taken (sc0710-i2c.c:363-597)
read_hdmi_status_update(exit, blk) ==
  /\ poll_pc = "i2c"
  /\ LET r  == writeread_ret(exit)
         b  == IF exit \in ExitsAfterRead THEN blk ELSE rbuf
         tc == detect_timing_change(dev, was_locked, b)
         nd == IF r < 0 THEN dev
               ELSE IF b[8] # 0 THEN locked_update(dev, was_locked, b)
               ELSE unlocked_update(dev, b)
     IN  /\ no_lock_no_timing(r, b) => dev.unlocked_no_timing_count < MaxNoTimingCount
         /\ ret' = r
         /\ rbuf' = b
         /\ poll_exit' = exit
         /\ dev' = nd
         /\ timing_changed' = (r >= 0 /\ b[8] # 0 /\ tc)
         /\ fps_target' = IF r >= 0 /\ b[8] # 0 /\ (tc \/ ~was_locked)
                          THEN fps_target_of(b[12], b[13]) ELSE 0
         /\ poll_pc' = IF r >= 0 /\ b[8] # 0 /\ need_resync(was_locked, nd, tc)
                       THEN "msleep" ELSE "idle"
         /\ prev_run' = zero_run
         /\ zero_run' = IF no_lock_no_timing(r, b)
                        THEN (IF zero_run > 0 THEN (IF zero_run < 4 THEN zero_run + 1 ELSE 4)
                              ELSE IF dev.unlocked_no_timing_count = 0 THEN 1 ELSE 0)
                        ELSE 0
         /\ scenario' = scenario_step(scenario, dev, r, b)
  /\ signalMutex' = mutex_after_update(poll_pc')
  /\ UNCHANGED othervars
  /\ UNCHANGED <<was_locked, pre, n_sleep, n_resync, slept_first, prev_ok_lock,
                 chvars, rsvars>>

\* msleep(300)
read_hdmi_status_msleep ==
  /\ poll_pc = "msleep"
  /\ n_sleep' = n_sleep + 1
  /\ poll_pc' = "resync"
  /\ UNCHANGED othervars
  /\ UNCHANGED <<sigvars, was_locked, timing_changed, fps_target, ret, rbuf,
                 poll_exit, pre, n_resync, slept_first, zero_run, prev_run, prev_ok_lock,
                 scenario, chvars, rsvars>>

(***************************************************************************)
(* DMA lifecycle control of the one video channel.                         *)
(***************************************************************************)
dma_channels_start_state(st, ok) == IF ok THEN "STATE_RUNNING" ELSE st

dma_channels_stop_state(st) == "STATE_STOPPED"

\* outcomes of sc0710_dma_channels_resize: success or failure
dma_channels_resize_result == BOOLEAN

(***************************************************************************)
(* sc0710_reset_dma_frame_sync, called by the poll thread.                 *)
(***************************************************************************)
pollghost == <<pre, n_sleep, zero_run, prev_run, prev_ok_lock, scenario>>
polllocals == <<was_locked, timing_changed, fps_target, ret, rbuf, poll_exit>>

\* call and if (!dev->fmt) return
reset_dma_frame_sync_enter ==
  /\ poll_pc = "resync"
  /\ n_resync' = n_resync + 1
  /\ slept_first' = (n_sleep = 1)
  /\ poll_pc' = IF dev.fmt = NULL THEN "idle" ELSE "rs_scan_state"
  /\ dma_was_running' = FALSE
  /\ has_streaming_clients' = FALSE
  /\ rs_log' = << >>
  /\ UNCHANGED othervars
  /\ UNCHANGED <<sigvars, polllocals, pollghost, chvars>>

\* if (ch->state == STATE_RUNNING) dma_was_running = 1
reset_dma_frame_sync_scan_state ==
  /\ poll_pc = "rs_scan_state"
  /\ dma_was_running' = (ch_state = "STATE_RUNNING")
  /\ poll_pc' = "rs_scan_refcount"
  /\ UNCHANGED othervars
  /\ UNCHANGED <<sigvars, polllocals, ghostvars, chvars, has_streaming_clients, rs_log>>

\* a scan that finds streaming clients whatever the reference count is
reset_dma_frame_sync_scan_refcount_ignored ==
  /\ poll_pc = "rs_scan_refcount"
  /\ has_streaming_clients' = TRUE
  /\ poll_pc' = IF dma_was_running THEN "rs_stop_check" ELSE "rs_resize"
  /\ UNCHANGED othervars
  /\ UNCHANGED <<sigvars, polllocals, ghostvars, chvars, dma_was_running, rs_log>>

\* if (atomic_read(&ch->streaming_refcount) > 0) has_streaming_clients = 1;
\* if (!has_streaming_clients) return
reset_dma_frame_sync_scan_refcount ==
  /\ poll_pc = "rs_scan_refcount"
  /\ has_streaming_clients' = (streaming_refcount > 0)
  /\ poll_pc' = IF ~(streaming_refcount > 0) THEN "idle"
                ELSE IF dma_was_running THEN "rs_stop_check" ELSE "rs_resize"
  /\ UNCHANGED othervars
  /\ UNCHANGED <<sigvars, polllocals, ghostvars, chvars, dma_was_running, rs_log>>

\* Phase 1: if (!ch->enabled || ch->state != STATE_RUNNING) continue;
\* mutex_lock(&ch->lock)
reset_dma_frame_sync_stop_lock ==
  /\ poll_pc = "rs_stop_check"
  /\ IF ch_state # "STATE_RUNNING"
     THEN /\ poll_pc' = "rs_resize"
          /\ UNCHANGED ch_lock
     ELSE /\ mutex_lock_acquires(ch_lock)
          /\ ch_lock' = "poll"
          /\ poll_pc' = "rs_stop"
  /\ UNCHANGED othervars
  /\ UNCHANGED <<sigvars, polllocals, ghostvars, ch_state, streaming_refcount,
                 timer_pending, rsvars>>

\* sc_write(dev, 1, ch->reg_dma_control_w1c, 1); usleep_range(5000, 6000)
reset_dma_frame_sync_stop ==
  /\ poll_pc = "rs_stop"
  /\ rs_log' = Append(rs_log, "dma_control_w1c")
  /\ poll_pc' = "rs_stop_timer"
  /\ UNCHANGED othervars
  /\ UNCHANGED <<sigvars, polllocals, ghostvars, chvars, dma_was_running,
                 has_streaming_clients>>

\* a stop phase that leaves the delivery timer armed
reset_dma_frame_sync_stop_timer_kept ==
  /\ poll_pc = "rs_stop_timer"
  /\ poll_pc' = "rs_stop_wbm"
  /\ UNCHANGED othervars
  /\ UNCHANGED <<sigvars, polllocals, ghostvars, chvars, rsvars>>

\* timer_delete_sync(&ch->timeout): waits for a running callback; mb()
reset_dma_frame_sync_stop_timer ==
  /\ poll_pc = "rs_stop_timer"
  /\ tick_pc = "idle"
  /\ timer_pending' = FALSE
  /\ rs_log' = Append(rs_log, "timer_delete_sync")
  /\ poll_pc' = "rs_stop_wbm"
  /\ UNCHANGED othervars
  /\ UNCHANGED <<sigvars, polllocals, ghostvars, ch_state, ch_lock,
                 streaming_refcount, dma_was_running, has_streaming_clients>>

\* *(dca->wbm[0]) = 0, *(dca->wbm[1]) = 0 for every allocation of every
\* chain; wmb()
reset_dma_frame_sync_stop_wbm ==
  /\ poll_pc = "rs_stop_wbm"
  /\ rs_log' = Append(rs_log, "wbm_clear")
  /\ poll_pc' = "rs_stop_regs"
  /\ UNCHANGED othervars
  /\ UNCHANGED <<sigvars, polllocals, ghostvars, chvars, dma_was_running,
                 has_streaming_clients>>

\* descriptor counter and scatter-gather registers, ch->state = STATE_STOPPED,
\* mutex_unlock(&ch->lock)
reset_dma_frame_sync_stop_regs ==
  /\ poll_pc = "rs_stop_regs"
  /\ rs_log' = rs_log \o <<"completed_descriptor_count", "sg_start_h", "sg_start_l",
                           "sg_adj", "STATE_STOPPED">>
  /\ ch_state' = "STATE_STOPPED"
  /\ ch_lock' = "free"
  /\ poll_pc' = "rs_resize"
  /\ UNCHANGED othervars
  /\ UNCHANGED <<sigvars, polllocals, ghostvars, streaming_refcount, timer_pending,
                 dma_was_running, has_streaming_clients>>

\* a resync that goes on to the register programming without resizing
reset_dma_frame_sync_resize_skipped ==
  /\ poll_pc = "rs_resize"
  /\ poll_pc' = "rs_program"
  /\ UNCHANGED othervars
  /\ UNCHANGED <<sigvars, polllocals, ghostvars, chvars, rsvars>>

\* Phase 2: sc0710_dma_channels_resize(dev)
reset_dma_frame_sync_resize ==
  /\ poll_pc = "rs_resize"
  /\ rs_log' = Append(rs_log, "resize")
  /\ poll_pc' = "rs_program"
  /\ UNCHANGED othervars
  /\ UNCHANGED <<sigvars, polllocals, ghostvars, chvars, dma_was_running,
                 has_streaming_clients>>

\* the register writes of phase 3, in program order
program_writes(d) ==
  (IF d.fmt # NULL THEN <<"BAR0_00C8=height">> ELSE << >>)
    \o <<"BAR0_00D0=0x4100", "0xcc=0", "0xdc=0", "BAR0_00D0=0x4300", "BAR0_00D0=0x4100">>

\* Phase 3: height register and control-register toggles, msleep(10)
reset_dma_frame_sync_program ==
  /\ poll_pc = "rs_program"
  /\ rs_log' = rs_log \o program_writes(dev)
  /\ poll_pc' = "rs_start"
  /\ UNCHANGED othervars
  /\ UNCHANGED <<sigvars, polllocals, ghostvars, chvars, dma_was_running,
                 has_streaming_clients>>

\* Phase 4: sc0710_dma_channels_start(dev); return
reset_dma_frame_sync_start(ok) ==
  /\ poll_pc = "rs_start"
  /\ ch_state' = dma_channels_start_state(ch_state, ok)
  /\ rs_log' = << >>
  /\ poll_pc' = "idle"
  /\ UNCHANGED othervars
  /\ UNCHANGED <<sigvars, polllocals, ghostvars, ch_lock, streaming_refcount,
                 timer_pending, dma_was_running, has_streaming_clients>>

(***************************************************************************)
(* Bus transaction engine (sc0710-i2c.c:33-214), executed by the status    *)
(* reader thread (sc0710_i2c_read_status2 / _status3 / _procamp through    *)
(* sc0710_i2c_writeread) and by the MCU writer (sc0710_i2c_write_mcu).     *)
(* The peripheral answers every read of the status register BAR0_3104 with *)
(* any value of StatusVals and every clock comparison either way.          *)
(***************************************************************************)
\* response lengths and payload lengths explored
MaxReadLen == 2
MaxPayload == 2
\* the count of status reads per wait loop saturates here
PollsCap == 40

I2C_DEV__ARM_MCU == 100
EIO == 5
EINVAL == 22

StatusVals == {0, 68, 192, 196, 140, 172, 200, 204}
DataVals == {90}
PayloadBytes == {17, 34}
SubAddrs == {18, 26}

Payloads ==
  UNION { [1..n -> PayloadBytes] : n \in 0..MaxPayload }

count_poll(n) == IF n < PollsCap THEN n + 1 ELSE n

\* a loop that forgets to count down
loop_dec_stuck(c) == c

\* cnt-- of the wait loops (sc0710-i2c.c:38, 56, 152, 173)
loop_dec(c) == c - 1

bus_return(exit, r) ==
  /\ bus_pc' = "done"
  /\ bus_exit' = exit
  /\ bus_ret' = r

\* the locals of a bus function that returned are dead
bus_locals_dead ==
  /\ cnt' = 0
  /\ rd_cnt' = 0
  /\ i2c_readlen' = 0
  /\ i2c_subaddr' = 0
  /\ bus_rbuf' = << >>
  /\ wbuf' = << >>
  /\ wr_i' = 0
  /\ bus_ret' = 0
  /\ bus_exit' = "none"
  /\ bus_writes' = << >>
  /\ saw_addr_ack' = FALSE
  /\ polls' = 0

busframe == <<sigvars, pollvars, ghostvars, chvars, rsvars, clvars, findvars, tmvars,
              iovars>>

\* sc0710_i2c_writeread: mutex_lock(&dev->signalMutex)
sc0710_i2c_writeread_lock ==
  /\ thr_pc["rd"] = "idle"
  /\ mutex_lock_acquires(signalMutex)
  /\ signalMutex' = "rd"
  /\ thr_pc' = [thr_pc EXCEPT !["rd"] = "locked"]
  /\ UNCHANGED <<dev, pollvars, ghostvars, chvars, rsvars, clvars, findvars, tmvars,
                 iovars>>
  /\ UNCHANGED <<thr_ret, bus_pc, bus_owner, cnt, rd_cnt, i2c_readlen, i2c_subaddr,
                 bus_rbuf, wbuf, wr_i, bus_ret, bus_exit, bus_writes, saw_addr_ack, polls>>

\* __sc0710_i2c_writeread entry: locals and the start-bit address byte
\* (sc0710-i2c.c:125-141)
writeread_begin(sub, rlen) ==
  /\ thr_pc["rd"] = "locked"
  /\ bus_pc = "idle"
  /\ thr_pc' = [thr_pc EXCEPT !["rd"] = "in_bus"]
  /\ bus_owner' = "rd"
  /\ i2c_readlen' = rlen % 256
  /\ i2c_subaddr' = sub
  /\ cnt' = 16
  /\ bus_writes' = << <<"BAR0_3100", 2>>, <<"BAR0_3100", 1>>,
                      <<"BAR0_3108", 256 + I2C_DEV__ARM_MCU>> >>
  /\ bus_rbuf' = << >>
  /\ bus_pc' = "wait_addr"
  /\ bus_exit' = "none"
  /\ bus_ret' = 0
  /\ saw_addr_ack' = FALSE
  /\ polls' = 0
  /\ UNCHANGED busframe
  /\ UNCHANGED <<thr_ret, rd_cnt, wbuf, wr_i>>

\* one iteration of the address-ack wait, the test after the loop and the
\* sub-address write (sc0710-i2c.c:144-164)
writeread_wait_addr(expired, v) ==
  /\ bus_pc = "wait_addr"
  /\ IF expired
     THEN /\ bus_return("addr_deadline", writeread_ret("addr_deadline"))
          /\ UNCHANGED <<cnt, bus_writes, saw_addr_ack, polls>>
     ELSE IF v = 68
     THEN /\ saw_addr_ack' = TRUE
          /\ bus_writes' = Append(bus_writes, <<"BAR0_3108", i2c_subaddr>>)
          /\ cnt' = 16
          /\ polls' = 0
          /\ bus_pc' = "wait_sub"
          /\ UNCHANGED <<bus_exit, bus_ret>>
     ELSE /\ cnt' = loop_dec(cnt)
          /\ polls' = count_poll(polls)
          /\ IF loop_dec(cnt) > 0
             THEN UNCHANGED <<bus_pc, bus_exit, bus_ret>>
             ELSE bus_return("addr_noack", writeread_ret("addr_noack"))
          /\ UNCHANGED <<bus_writes, saw_addr_ack>>
  /\ UNCHANGED busframe
  /\ UNCHANGED <<thr_pc, thr_ret, bus_owner, rd_cnt, i2c_readlen, i2c_subaddr,
                 bus_rbuf, wbuf, wr_i>>

\* register writes between the sub-address wait and the read loop
\* (sc0710-i2c.c:177-186)
read_setup_writes ==
  << <<"BAR0_3120", 15>>, <<"BAR0_3100", 2>>, <<"BAR0_3100", 0>>,
     <<"BAR0_3108", 256 + I2C_DEV__ARM_MCU + 1>>,
     <<"BAR0_3108", 512 + i2c_readlen>>, <<"BAR0_3100", 1>> >>

\* one iteration of the sub-address-ack wait; when the loop ends, acked or
\* not, the read is set up (sc0710-i2c.c:165-186)
writeread_wait_sub(expired, v) ==
  /\ bus_pc = "wait_sub"
  /\ IF expired
     THEN /\ bus_return("sub_deadline", writeread_ret("sub_deadline"))
          /\ UNCHANGED <<cnt, bus_writes, polls>>
     ELSE IF v = 196 \/ loop_dec(cnt) <= 0
     THEN /\ bus_writes' = bus_writes \o read_setup_writes
          /\ cnt' = 0
          /\ polls' = IF v = 196 THEN polls ELSE count_poll(polls)
          /\ bus_pc' = "read"
          /\ UNCHANGED <<bus_exit, bus_ret>>
     ELSE /\ cnt' = loop_dec(cnt)
          /\ polls' = count_poll(polls)
          /\ UNCHANGED <<bus_pc, bus_exit, bus_ret, bus_writes>>
  /\ UNCHANGED busframe
  /\ UNCHANGED <<thr_pc, thr_ret, bus_owner, rd_cnt, i2c_readlen, i2c_subaddr,
                 bus_rbuf, wbuf, wr_i, saw_addr_ack>>

\* head of the read loop: while (cnt < i2c_readlen), the deadline test and
\* the call of busread; after the loop the completion status is checked
\* (sc0710-i2c.c:187-204)
writeread_read(expired, v) ==
  /\ bus_pc = "read"
  /\ IF cnt < i2c_readlen
     THEN IF expired
          THEN /\ bus_return("read_deadline", writeread_ret("read_deadline"))
               /\ UNCHANGED <<rd_cnt, polls>>
          ELSE /\ rd_cnt' = 32
               /\ polls' = 0
               /\ bus_pc' = "busread"
               /\ UNCHANGED <<bus_exit, bus_ret>>
     ELSE /\ IF v # 200 /\ v # 204
             THEN bus_return("bad_completion", writeread_ret("bad_completion"))
             ELSE bus_return("ok", writeread_ret("ok"))
          /\ UNCHANGED <<rd_cnt, polls>>
  /\ UNCHANGED busframe
  /\ UNCHANGED <<thr_pc, thr_ret, bus_owner, cnt, i2c_readlen, i2c_subaddr,
                 bus_rbuf, wbuf, wr_i, bus_writes, saw_addr_ack>>

\* one iteration of busread; when it returns, the byte is stored and the
\* read loop counts up (sc0710-i2c.c:50-73, 192-194)
busread(expired, v, data) ==
  /\ bus_pc = "busread"
  /\ IF expired
     THEN /\ bus_rbuf' = Append(bus_rbuf, 255)
          /\ cnt' = cnt + 1
          /\ bus_pc' = "read"
          /\ UNCHANGED <<rd_cnt, polls>>
     ELSE IF v = 140 \/ v = 172 \/ loop_dec(rd_cnt) <= 0
     THEN /\ bus_rbuf' = Append(bus_rbuf, data % 256)
          /\ cnt' = cnt + 1
          /\ bus_pc' = "read"
          /\ polls' = count_poll(polls)
          /\ UNCHANGED rd_cnt
     ELSE /\ rd_cnt' = loop_dec(rd_cnt)
          /\ polls' = count_poll(polls)
          /\ UNCHANGED <<bus_rbuf, cnt, bus_pc>>
  /\ UNCHANGED busframe
  /\ UNCHANGED <<thr_pc, thr_ret, bus_owner, i2c_readlen, i2c_subaddr,
                 wbuf, wr_i, bus_ret, bus_exit, bus_writes, saw_addr_ack>>

\* sc0710_i2c_writeread: mutex_unlock(&dev->signalMutex); return ret
sc0710_i2c_writeread_unlock ==
  /\ thr_pc["rd"] = "in_bus"
  /\ bus_owner = "rd"
  /\ bus_pc = "done"
  /\ signalMutex' = "free"
  /\ thr_ret' = [thr_ret EXCEPT !["rd"] = bus_ret]
  /\ thr_pc' = [thr_pc EXCEPT !["rd"] = "idle"]
  /\ bus_pc' = "idle"
  /\ bus_owner' = "none"
  /\ bus_locals_dead
  /\ UNCHANGED <<dev, pollvars, ghostvars, chvars, rsvars, clvars, findvars, tmvars,
                 iovars>>

\* sc0710_i2c_write_mcu with len > 15: return -EINVAL
sc0710_i2c_write_mcu_einval ==
  /\ thr_pc["wr"] = "idle"
  /\ thr_ret' = [thr_ret EXCEPT !["wr"] = 0 - EINVAL]
  /\ UNCHANGED busframe
  /\ UNCHANGED <<thr_pc, bus_pc, bus_owner, cnt, rd_cnt, i2c_readlen, i2c_subaddr,
                 bus_rbuf, wbuf, wr_i, bus_ret, bus_exit, bus_writes, saw_addr_ack,
                 polls>>

\* sc0710_i2c_write_mcu with len <= 15: wbuf[0] = subaddr, memcpy,
\* mutex_lock(&dev->signalMutex)
sc0710_i2c_write_mcu_lock(sub, data) ==
  /\ thr_pc["wr"] = "idle"
  /\ Len(data) <= 15
  /\ mutex_lock_acquires(signalMutex)
  /\ signalMutex' = "wr"
  /\ wbuf' = <<sub>> \o data
  /\ thr_pc' = [thr_pc EXCEPT !["wr"] = "locked"]
  /\ UNCHANGED <<dev, pollvars, ghostvars, chvars, rsvars, clvars, findvars, tmvars,
                 iovars>>
  /\ UNCHANGED <<thr_ret, bus_pc, bus_owner, cnt, rd_cnt, i2c_readlen, i2c_subaddr,
                 bus_rbuf, wr_i, bus_ret, bus_exit, bus_writes, saw_addr_ack, polls>>

\* sc0710_i2c_write entry: the start-bit address byte (sc0710-i2c.c:83-85)
i2c_write_begin ==
  /\ thr_pc["wr"] = "locked"
  /\ bus_pc = "idle"
  /\ thr_pc' = [thr_pc EXCEPT !["wr"] = "in_bus"]
  /\ bus_owner' = "wr"
  /\ bus_writes' = << <<"BAR0_3100", 2>>, <<"BAR0_3100", 1>>,
                      <<"BAR0_3108", 256 + I2C_DEV__ARM_MCU>> >>
  /\ wr_i' = 0
  /\ cnt' = 16
  /\ polls' = 0
  /\ bus_pc' = "didack"
  /\ bus_exit' = "none"
  /\ bus_ret' = 0
  /\ bus_rbuf' = << >>
  /\ saw_addr_ack' = FALSE
  /\ UNCHANGED busframe
  /\ UNCHANGED <<thr_ret, rd_cnt, i2c_readlen, i2c_subaddr, wbuf>>

\* one iteration of didack; on acknowledge the loop of sc0710_i2c_write
\* sends its next byte *(wbuf + i), i counted from 1, or returns success;
\* after 16 reads without acknowledge it returns -EIO (sc0710-i2c.c:33-47,
\* 88-100).  wbuf is 1-based here: *(wbuf + i) is wbuf[i + 1].
didack(v) ==
  /\ bus_pc = "didack"
  /\ polls' = IF v = 68 \/ v = 192 THEN 0 ELSE count_poll(polls)
  /\ IF v = 68 \/ v = 192
     THEN IF wr_i + 1 < Len(wbuf)
          THEN /\ wr_i' = wr_i + 1
               /\ bus_writes' = Append(bus_writes,
                    <<"BAR0_3108", wbuf[wr_i + 2]
                                   + (IF wr_i + 1 = Len(wbuf) - 1 THEN 512 ELSE 0)>>)
               /\ cnt' = 16
               /\ UNCHANGED <<bus_pc, bus_exit, bus_ret>>
          ELSE /\ bus_return("write_ok", 0)
               /\ UNCHANGED <<wr_i, bus_writes, cnt>>
     ELSE /\ cnt' = loop_dec(cnt)
          /\ IF loop_dec(cnt) > 0
             THEN UNCHANGED <<bus_pc, bus_exit, bus_ret>>
             ELSE bus_return("write_noack", 0 - EIO)
          /\ UNCHANGED <<wr_i, bus_writes>>
  /\ UNCHANGED busframe
  /\ UNCHANGED <<thr_pc, thr_ret, bus_owner, rd_cnt, i2c_readlen, i2c_subaddr,
                 bus_rbuf, wbuf, saw_addr_ack>>

\* sc0710_i2c_write_mcu: mutex_unlock(&dev->signalMutex); return ret
sc0710_i2c_write_mcu_unlock ==
  /\ thr_pc["wr"] = "in_bus"
  /\ bus_owner = "wr"
  /\ bus_pc = "done"
  /\ signalMutex' = "free"
  /\ thr_ret' = [thr_ret EXCEPT !["wr"] = bus_ret]
  /\ thr_pc' = [thr_pc EXCEPT !["wr"] = "idle"]
  /\ bus_pc' = "idle"
  /\ bus_owner' = "none"
  /\ bus_locals_dead
  /\ UNCHANGED <<dev, pollvars, ghostvars, chvars, rsvars, clvars, findvars, tmvars,
                 iovars>>

BusStep ==
  \/ \E sub \in SubAddrs, rlen \in 1..MaxReadLen : writeread_begin(sub, rlen)
  \/ \E e \in BOOLEAN, v \in StatusVals : writeread_wait_addr(e, v)
  \/ \E e \in BOOLEAN, v \in StatusVals : writeread_wait_sub(e, v)
  \/ \E e \in BOOLEAN, v \in StatusVals : writeread_read(e, v)
  \/ \E e \in BOOLEAN, v \in StatusVals, d \in DataVals : busread(e, v, d)
  \/ i2c_write_begin
  \/ \E v \in StatusVals : didack(v)

BusNext ==
  \/ sc0710_i2c_writeread_lock
  \/ sc0710_i2c_writeread_unlock
  \/ sc0710_i2c_write_mcu_einval
  \/ \E sub \in SubAddrs, data \in Payloads : sc0710_i2c_write_mcu_lock(sub, data)
  \/ sc0710_i2c_write_mcu_unlock
  \/ BusStep

BusInit ==
  /\ thr_pc = [t \in {"rd", "wr"} |-> "idle"]
  /\ thr_ret = [t \in {"rd", "wr"} |-> 0]
  /\ bus_pc = "idle"
  /\ bus_owner = "none"
  /\ cnt = 0
  /\ rd_cnt = 0
  /\ i2c_readlen = 0
  /\ i2c_subaddr = 0
  /\ bus_rbuf = << >>
  /\ wbuf = << >>
  /\ wr_i = 0
  /\ bus_ret = 0
  /\ bus_exit = "none"
  /\ bus_writes = << >>
  /\ saw_addr_ack = FALSE
  /\ polls = 0

Clients == {"A", "B"}

MaxBufs == 1
Bufs == 1..MaxBufs

\* no placeholder written yet
NoFill == [width |-> 0, height |-> 0, payload |-> 0, plane |-> 0, sequence |-> 0]

\* Both clients have opened the device and requested buffers before any
\* signal was detected: queue setup sized them for the default format.
ClientInit ==
  /\ cl_pc = [c \in Clients |-> "idle"]
  /\ cl_streaming = [c \in Clients |-> FALSE]
  /\ cl_refcount = [c \in Clients |-> 0]
  /\ cl_locked = [c \in Clients |-> FALSE]
  /\ cl_resize_ok = [c \in Clients |-> TRUE]
  /\ cl_fifo = [c \in Clients |-> << >>]
  /\ buf_status = [c \in Clients |-> [b \in Bufs |-> "DEQUEUED"]]
  /\ tick_pc = "idle"
  /\ tick_left = << >>
  /\ any_streaming = FALSE
  /\ client_list = <<"A", "B">>
  /\ client_list_lock = "free"
  /\ buffer_lock = [c \in Clients |-> "free"]
  /\ buf_plane = [c \in Clients |-> framesize(default_no_signal_format)]
  /\ last_fill = NoFill
  /\ frame_sequence = 0

(***************************************************************************)
(* Capture clients: sc0710_start_streaming and sc0710_stop_streaming       *)
(* (sc0710-video.c:878-961).  A call arrives either through video_ioctl2   *)
(* (VIDIOC_STREAMON / VIDIOC_STREAMOFF), which holds vdev.lock = ch->lock  *)
(* (sc0710-video.c:1381) around the handler, or through read() / release() *)
(* (sc0710_fop_read, sc0710_video_release), which take no lock.            *)
(***************************************************************************)
clframe == <<sigvars, pollvars, ghostvars, rsvars, busvars, findvars, tmvars, iovars>>

\* return of a handler: video_ioctl2 drops ch->lock if it took it
handler_return(c) ==
  /\ ch_lock' = IF cl_locked[c] THEN "free" ELSE ch_lock
  /\ cl_locked' = [cl_locked EXCEPT ![c] = FALSE]
  /\ cl_resize_ok' = [cl_resize_ok EXCEPT ![c] = TRUE]

\* members of a FIFO
fifo_bufs(fifo) == { fifo[k] : k \in 1..Len(fifo) }

\* a flush that walks the FIFO of every client of the channel
fifo_flush_every_client(c, state) ==
  /\ cl_fifo' = [d \in Clients |-> << >>]
  /\ buf_status' = [d \in Clients |->
                      [b \in Bufs |-> IF b \in fifo_bufs(cl_fifo[d]) THEN state
                                      ELSE buf_status[d][b]]]

\* list_for_each_entry_safe: list_del + vb2_buffer_done(state) on every entry
fifo_flush(c, state) ==
  /\ buffer_lock[c] = "free"
  /\ cl_fifo' = [cl_fifo EXCEPT ![c] = << >>]
  /\ buf_status' = [buf_status EXCEPT ![c] =
                      [b \in Bufs |-> IF b \in fifo_bufs(cl_fifo[c]) THEN state ELSE @[b]]]

\* client->streaming = true
start_streaming_enter(c, ioctl) ==
  /\ cl_pc[c] = "idle"
  /\ IF ioctl
     THEN /\ mutex_lock_acquires(ch_lock)
          /\ ch_lock' = c
     ELSE UNCHANGED ch_lock
  /\ cl_locked' = [cl_locked EXCEPT ![c] = ioctl]
  /\ cl_streaming' = [cl_streaming EXCEPT ![c] = TRUE]
  /\ cl_pc' = [cl_pc EXCEPT ![c] = "ss_inc"]
  /\ UNCHANGED <<ch_state, streaming_refcount, timer_pending, cl_refcount>>
  /\ UNCHANGED <<cl_resize_ok, cl_fifo, buf_status>>
  /\ UNCHANGED clframe

\* refcount = atomic_inc_return(&ch->streaming_refcount)
start_streaming_inc(c) ==
  /\ cl_pc[c] = "ss_inc"
  /\ streaming_refcount' = streaming_refcount + 1
  /\ cl_refcount' = [cl_refcount EXCEPT ![c] = streaming_refcount + 1]
  /\ cl_pc' = [cl_pc EXCEPT ![c] = "ss_check"]
  /\ UNCHANGED <<ch_state, ch_lock, timer_pending, cl_streaming, cl_locked>>
  /\ UNCHANGED <<cl_resize_ok, cl_fifo, buf_status>>
  /\ UNCHANGED clframe

\* if (refcount == 1 && dev->fmt != NULL)
start_streaming_check(c) ==
  /\ cl_pc[c] = "ss_check"
  /\ cl_pc' = [cl_pc EXCEPT ![c] =
                 IF cl_refcount[c] = 1 /\ dev.fmt # NULL THEN "ss_resize" ELSE "ss_timer"]
  /\ UNCHANGED <<chvars, cl_streaming, cl_refcount, cl_locked>>
  /\ UNCHANGED <<cl_resize_ok, cl_fifo, buf_status>>
  /\ UNCHANGED clframe

\* sc0710_dma_channels_resize(dev)
start_streaming_resize(c, ok) ==
  /\ cl_pc[c] = "ss_resize"
  /\ cl_pc' = [cl_pc EXCEPT ![c] = "ss_start"]
  /\ UNCHANGED <<chvars, cl_streaming, cl_refcount, cl_locked>>
  /\ cl_resize_ok' = [cl_resize_ok EXCEPT ![c] = ok]
  /\ UNCHANGED <<cl_fifo, buf_status>>
  /\ UNCHANGED clframe

\* ret = sc0710_dma_channels_start(dev)
start_streaming_start(c, ok) ==
  /\ cl_pc[c] = "ss_start"
  /\ ch_state' = dma_channels_start_state(ch_state, ok)
  /\ cl_pc' = [cl_pc EXCEPT ![c] = IF ok THEN "ss_timer" ELSE "ss_fail"]
  /\ UNCHANGED <<ch_lock, streaming_refcount, timer_pending, cl_streaming,
                 cl_refcount, cl_locked>>
  /\ UNCHANGED <<cl_resize_ok, cl_fifo, buf_status>>
  /\ UNCHANGED clframe

\* error path: client->streaming = false
start_streaming_fail(c) ==
  /\ cl_pc[c] = "ss_fail"
  /\ cl_streaming' = [cl_streaming EXCEPT ![c] = FALSE]
  /\ cl_pc' = [cl_pc EXCEPT ![c] = "ss_fail_dec"]
  /\ UNCHANGED <<chvars, cl_refcount, cl_locked>>
  /\ UNCHANGED <<cl_resize_ok, cl_fifo, buf_status>>
  /\ UNCHANGED clframe

\* error path: atomic_dec(&ch->streaming_refcount); return ret
start_streaming_fail_dec(c) ==
  /\ cl_pc[c] = "ss_fail_dec"
  /\ streaming_refcount' = streaming_refcount - 1
  /\ cl_pc' = [cl_pc EXCEPT ![c] = "idle"]
  /\ fifo_flush(c, "QUEUED")
  /\ handler_return(c)
  /\ UNCHANGED <<ch_state, timer_pending, cl_streaming, cl_refcount>>
  /\ UNCHANGED clframe

\* mod_timer(&ch->timeout, jiffies + VBUF_TIMEOUT); return 0
start_streaming_timer(c) ==
  /\ cl_pc[c] = "ss_timer"
  /\ timer_pending' = TRUE
  /\ cl_pc' = [cl_pc EXCEPT ![c] = "streaming"]
  /\ handler_return(c)
  /\ UNCHANGED <<ch_state, streaming_refcount, cl_streaming, cl_refcount>>
  /\ UNCHANGED <<cl_fifo, buf_status>>
  /\ UNCHANGED clframe

\* client->streaming = false
stop_streaming_enter(c, ioctl) ==
  /\ cl_pc[c] = "streaming"
  /\ IF ioctl
     THEN /\ mutex_lock_acquires(ch_lock)
          /\ ch_lock' = c
     ELSE UNCHANGED ch_lock
  /\ cl_locked' = [cl_locked EXCEPT ![c] = ioctl]
  /\ cl_streaming' = [cl_streaming EXCEPT ![c] = FALSE]
  /\ cl_pc' = [cl_pc EXCEPT ![c] = "st_dec"]
  /\ UNCHANGED <<ch_state, streaming_refcount, timer_pending, cl_refcount>>
  /\ UNCHANGED <<cl_resize_ok, cl_fifo, buf_status>>
  /\ UNCHANGED clframe

\* refcount = atomic_dec_return(&ch->streaming_refcount); if (refcount <= 0)
stop_streaming_dec(c) ==
  /\ cl_pc[c] = "st_dec"
  /\ streaming_refcount' = streaming_refcount - 1
  /\ cl_refcount' = [cl_refcount EXCEPT ![c] = streaming_refcount - 1]
  /\ cl_pc' = [cl_pc EXCEPT ![c] =
                 IF streaming_refcount - 1 <= 0 THEN "st_clamp" ELSE "st_flush"]
  /\ UNCHANGED <<ch_state, ch_lock, timer_pending, cl_streaming, cl_locked>>
  /\ UNCHANGED <<cl_resize_ok, cl_fifo, buf_status>>
  /\ UNCHANGED clframe

\* atomic_set(&ch->streaming_refcount, 0)
stop_streaming_clamp(c) ==
  /\ cl_pc[c] = "st_clamp"
  /\ streaming_refcount' = 0
  /\ cl_pc' = [cl_pc EXCEPT ![c] = "st_timer"]
  /\ UNCHANGED <<ch_state, ch_lock, timer_pending, cl_streaming, cl_refcount, cl_locked>>
  /\ UNCHANGED <<cl_resize_ok, cl_fifo, buf_status>>
  /\ UNCHANGED clframe

\* timer_delete_sync(&ch->timeout)
stop_streaming_timer(c) ==
  /\ cl_pc[c] = "st_timer"
  /\ tick_pc = "idle"
  /\ timer_pending' = FALSE
  /\ cl_pc' = [cl_pc EXCEPT ![c] = "st_dma_stop"]
  /\ UNCHANGED <<ch_state, ch_lock, streaming_refcount, cl_streaming, cl_refcount,
                 cl_locked>>
  /\ UNCHANGED <<cl_resize_ok, cl_fifo, buf_status>>
  /\ UNCHANGED clframe

\* sc0710_dma_channels_stop(dev)
stop_streaming_dma_stop(c) ==
  /\ cl_pc[c] = "st_dma_stop"
  /\ ch_state' = dma_channels_stop_state(ch_state)
  /\ cl_pc' = [cl_pc EXCEPT ![c] = "st_flush"]
  /\ UNCHANGED <<ch_lock, streaming_refcount, timer_pending, cl_streaming,
                 cl_refcount, cl_locked>>
  /\ UNCHANGED <<cl_resize_ok, cl_fifo, buf_status>>
  /\ UNCHANGED clframe

\* the client's buffers are handed back; return
stop_streaming_flush(c) ==
  /\ cl_pc[c] = "st_flush"
  /\ cl_pc' = [cl_pc EXCEPT ![c] = "idle"]
  /\ fifo_flush(c, "ERROR")
  /\ handler_return(c)
  /\ UNCHANGED <<ch_state, streaming_refcount, timer_pending, cl_streaming, cl_refcount>>
  /\ UNCHANGED clframe

\* sc0710_buf_queue: list_add_tail under the client's buffer_lock; vb2 hands
\* a buffer to the driver from VIDIOC_QBUF or, for buffers queued before
\* VIDIOC_STREAMON, just before it calls start_streaming
sc0710_buf_queue(c, b) ==
  /\ cl_pc[c] \in {"idle", "streaming"}
  /\ buf_status[c][b] # "ACTIVE"
  /\ buffer_lock[c] = "free"
  /\ cl_fifo' = [cl_fifo EXCEPT ![c] = Append(@, b)]
  /\ buf_status' = [buf_status EXCEPT ![c][b] = "ACTIVE"]
  /\ UNCHANGED <<chvars, cl_pc, cl_streaming, cl_refcount, cl_locked, cl_resize_ok>>
  /\ UNCHANGED clframe

\* the steps of client c; paths holds TRUE for calls through video_ioctl2
\* and FALSE for calls through read() / release()
ClientSteps(c, paths) ==
    \/ \E ioctl \in paths : start_streaming_enter(c, ioctl)
    \/ start_streaming_inc(c)
    \/ start_streaming_check(c)
    \/ \E ok \in dma_channels_resize_result : start_streaming_resize(c, ok)
    \/ \E ok \in BOOLEAN : start_streaming_start(c, ok)
    \/ start_streaming_fail(c)
    \/ start_streaming_fail_dec(c)
    \/ start_streaming_timer(c)
    \/ \E ioctl \in paths : stop_streaming_enter(c, ioctl)
    \/ stop_streaming_dec(c)
    \/ stop_streaming_clamp(c)
    \/ stop_streaming_timer(c)
    \/ stop_streaming_dma_stop(c)
    \/ stop_streaming_flush(c)

ClientNext == \E c \in Clients : ClientSteps(c, BOOLEAN)

(***************************************************************************)
(* Specification of the signal state machine: the poll thread alone, with  *)
(* or without a client that began streaming before any signal.             *)
(***************************************************************************)
(***************************************************************************)
(* Buffer allocation and file handles (sc0710-video.c:821-863, 977-1102).  *)
(***************************************************************************)
tmframe == <<sigvars, pollvars, ghostvars, chvars, rsvars, busvars, findvars, iovars>>

\* fmt = dev->fmt ? dev->fmt : sc0710_get_default_format()
current_or_default(d) == IF d.fmt # NULL THEN formats[d.fmt] ELSE default_no_signal_format

\* VIDIOC_REQBUFS on an idle queue: sc0710_queue_setup sizes the plane of the
\* new buffers for the format resolved now
sc0710_queue_setup(c) ==
  /\ cl_pc[c] = "idle"
  /\ cl_fifo[c] = << >>
  /\ buf_plane' = [buf_plane EXCEPT ![c] = framesize(current_or_default(dev))]
  /\ buf_status' = [buf_status EXCEPT ![c] = [b \in Bufs |-> "DEQUEUED"]]
  /\ UNCHANGED <<cl_pc, cl_streaming, cl_refcount, cl_locked, cl_resize_ok, cl_fifo>>
  /\ UNCHANGED <<tick_pc, tick_left, any_streaming, client_list, client_list_lock,
                 buffer_lock, last_fill, frame_sequence>>
  /\ UNCHANGED tmframe

\* if (vb2_plane_size(vb, 0) < fmt->framesize) return -EINVAL
sc0710_buf_prepare(c) == buf_plane[c] >= framesize(current_or_default(dev))

\* VIDIOC_QBUF: vb2 calls sc0710_buf_prepare and, if it succeeds,
\* sc0710_buf_queue
vb2_qbuf(c, b) ==
  /\ buf_plane[c] # 0
  /\ sc0710_buf_prepare(c)
  /\ sc0710_buf_queue(c, b)

\* sc0710_video_release of a client that is not streaming: list_del under
\* the client-list lock, vb2_queue_release frees the buffers
sc0710_video_release(c) ==
  /\ cl_pc[c] = "idle"
  /\ cl_fifo[c] = << >>
  /\ client_list_lock = "free"
  /\ client_list' = SelectSeq(client_list, LAMBDA d : d # c)
  /\ cl_pc' = [cl_pc EXCEPT ![c] = "closed"]
  /\ buf_plane' = [buf_plane EXCEPT ![c] = 0]
  /\ buf_status' = [buf_status EXCEPT ![c] = [b \in Bufs |-> "DEQUEUED"]]
  /\ UNCHANGED <<cl_streaming, cl_refcount, cl_locked, cl_resize_ok, cl_fifo>>
  /\ UNCHANGED <<tick_pc, tick_left, any_streaming, client_list_lock, buffer_lock,
                 last_fill, frame_sequence>>
  /\ UNCHANGED tmframe

\* sc0710_video_open: list_add_tail under the client-list lock
sc0710_video_open(c) ==
  /\ cl_pc[c] = "closed"
  /\ client_list_lock = "free"
  /\ client_list' = Append(client_list, c)
  /\ cl_pc' = [cl_pc EXCEPT ![c] = "idle"]
  /\ UNCHANGED <<cl_streaming, cl_refcount, cl_locked, cl_resize_ok, cl_fifo, buf_status>>
  /\ UNCHANGED <<tick_pc, tick_left, any_streaming, client_list_lock, buffer_lock,
                 buf_plane, last_fill, frame_sequence>>
  /\ UNCHANGED tmframe

(***************************************************************************)
(* The delivery timer callback sc0710_vid_timeout (sc0710-video.c:1254-    *)
(* 1334).  The callback runs when the armed timer expires; it never runs   *)
(* concurrently with itself.                                               *)
(***************************************************************************)
tickframe == <<sigvars, pollvars, ghostvars, rsvars, busvars, findvars, iovars>>

\* a placeholder drawn at the geometry of the last resolved format
placeholder_format_last_fmt(d) ==
  IF d.last_fmt # NULL THEN formats[d.last_fmt] ELSE default_no_signal_format

\* placeholder ticks of one behaviour (ch->frame_sequence counts them)
MaxSeq == 1

\* fmt = sc0710_get_default_format()
placeholder_format(d) == default_no_signal_format

\* a callback that delivers placeholders whatever the signal state is
dma_delivers_never(d) == FALSE

\* if (dev->fmt != NULL && dev->locked): the DMA completion path delivers
dma_delivers(d) == d.fmt # NULL /\ d.locked

\* the timer expires; if (dev->fmt != NULL && dev->locked) the callback only
\* re-arms the timer while the reference count is positive and returns;
\* otherwise spin_lock_irqsave(&ch->client_list_lock)
vid_timeout_fire ==
  /\ tick_pc = "idle"
  /\ timer_pending
  /\ IF dma_delivers(dev)
     THEN /\ timer_pending' = (streaming_refcount > 0)
          /\ UNCHANGED <<tick_pc, tick_left, any_streaming, client_list_lock>>
     ELSE /\ client_list_lock = "free"
          /\ frame_sequence < MaxSeq
          /\ timer_pending' = FALSE
          /\ client_list_lock' = "timer"
          /\ tick_left' = client_list
          /\ any_streaming' = FALSE
          /\ tick_pc' = "list"
  /\ UNCHANGED <<ch_state, ch_lock, streaming_refcount>>
  /\ UNCHANGED <<client_list, buffer_lock, buf_plane, last_fill, frame_sequence>>
  /\ UNCHANGED clvars
  /\ UNCHANGED tickframe

\* list_for_each_entry: if (!client->streaming) continue; any_streaming = 1;
\* spin_lock_irqsave(&client->buffer_lock).  After the last client:
\* ch->frame_sequence++, spin_unlock_irqrestore(&ch->client_list_lock)
vid_timeout_next_client ==
  /\ tick_pc = "list"
  /\ IF tick_left = << >>
     THEN /\ frame_sequence' = frame_sequence + 1
          /\ client_list_lock' = "free"
          /\ tick_pc' = "rearm"
          /\ UNCHANGED <<tick_left, any_streaming, buffer_lock>>
     ELSE IF ~cl_streaming[Head(tick_left)]
     THEN /\ tick_left' = Tail(tick_left)
          /\ UNCHANGED <<tick_pc, any_streaming, client_list_lock, buffer_lock,
                         frame_sequence>>
     ELSE /\ buffer_lock[Head(tick_left)] = "free"
          /\ buffer_lock' = [buffer_lock EXCEPT ![Head(tick_left)] = "timer"]
          /\ any_streaming' = TRUE
          /\ tick_pc' = "fifo"
          /\ UNCHANGED <<tick_left, client_list_lock, frame_sequence>>
  /\ UNCHANGED <<client_list, buf_plane, last_fill>>
  /\ UNCHANGED chvars
  /\ UNCHANGED clvars
  /\ UNCHANGED tickframe

\* a delivery that returns to the list walk without releasing the FIFO lock
vid_timeout_deliver_no_unlock ==
  /\ tick_pc = "fifo"
  /\ LET c   == Head(tick_left)
         fmt == placeholder_format(dev)
     IN  /\ IF cl_fifo[c] # << >>
            THEN /\ last_fill' = [width |-> fmt.width, height |-> fmt.height,
                                  payload |-> framesize(fmt), plane |-> buf_plane[c],
                                  sequence |-> frame_sequence]
                 /\ buf_status' = [buf_status EXCEPT ![c][Head(cl_fifo[c])] = "DONE"]
                 /\ cl_fifo' = [cl_fifo EXCEPT ![c] = Tail(@)]
            ELSE UNCHANGED <<last_fill, buf_status, cl_fifo>>
         /\ UNCHANGED buffer_lock
  /\ tick_left' = Tail(tick_left)
  /\ tick_pc' = "list"
  /\ UNCHANGED <<any_streaming, client_list, client_list_lock, buf_plane,
                 frame_sequence>>
  /\ UNCHANGED chvars
  /\ UNCHANGED <<cl_pc, cl_streaming, cl_refcount, cl_locked, cl_resize_ok>>
  /\ UNCHANGED tickframe

\* if (!list_empty(&client->buffer_list)): fill_frame at fmt->width x
\* fmt->height, vb2_set_plane_payload(fmt->framesize), list_del,
\* vb2_buffer_done(DONE); spin_unlock_irqrestore(&client->buffer_lock)
vid_timeout_deliver ==
  /\ tick_pc = "fifo"
  /\ LET c   == Head(tick_left)
         fmt == placeholder_format(dev)
     IN  /\ IF cl_fifo[c] # << >>
            THEN /\ last_fill' = [width |-> fmt.width, height |-> fmt.height,
                                  payload |-> framesize(fmt), plane |-> buf_plane[c],
                                  sequence |-> frame_sequence]
                 /\ buf_status' = [buf_status EXCEPT ![c][Head(cl_fifo[c])] = "DONE"]
                 /\ cl_fifo' = [cl_fifo EXCEPT ![c] = Tail(@)]
            ELSE UNCHANGED <<last_fill, buf_status, cl_fifo>>
         /\ buffer_lock' = [buffer_lock EXCEPT ![c] = "free"]
  /\ tick_left' = Tail(tick_left)
  /\ tick_pc' = "list"
  /\ UNCHANGED <<any_streaming, client_list, client_list_lock, buf_plane,
                 frame_sequence>>
  /\ UNCHANGED chvars
  /\ UNCHANGED <<cl_pc, cl_streaming, cl_refcount, cl_locked, cl_resize_ok>>
  /\ UNCHANGED tickframe

\* if (any_streaming) mod_timer(&ch->timeout, jiffies + VBUF_TIMEOUT); return
vid_timeout_rearm ==
  /\ tick_pc = "rearm"
  /\ timer_pending' = (timer_pending \/ any_streaming)
  /\ any_streaming' = FALSE
  /\ tick_pc' = "idle"
  /\ UNCHANGED <<ch_state, ch_lock, streaming_refcount>>
  /\ UNCHANGED <<tick_left, client_list, client_list_lock, buffer_lock,
                 buf_plane, last_fill, frame_sequence>>
  /\ UNCHANGED clvars
  /\ UNCHANGED tickframe

TickNext ==
  \/ vid_timeout_fire
  \/ vid_timeout_next_client
  \/ vid_timeout_deliver
  \/ vid_timeout_rearm

(***************************************************************************)
(* Callers of the format lookups (sc0710-video.c:497-556): the pure        *)
(* functions applied to arguments drawn from the catalog and around it.    *)
(***************************************************************************)
MaxTargetFps == 240

CatalogTotals == { <<formats[i].timingH, formats[i].timingV>> : i \in 1..Len(formats) }

\* totals of every catalog entry, totals outside the catalog, and a pair
\* that mixes the H and V of two entries
FindTotals == CatalogTotals \cup { <<3000, 1500>>, <<2200, 2250>>, <<0, 0>> }

\* no format query ioctl has been issued
IoctlIdle ==
  /\ ioctl_pc = "idle"
  /\ ioctl_op = "none"
  /\ ioctl_tested = NULL
  /\ ioctl_used = << >>

FindIdle ==
  /\ fq_pc = "idle"
  /\ fq_timingH = 0
  /\ fq_timingV = 0
  /\ fq_target_fps = 0
  /\ fq_fmt = NULL
  /\ fq_fmt0 = NULL

FindInit ==
  /\ fq_pc = "call"
  /\ \E t \in FindTotals : fq_timingH = t[1] /\ fq_timingV = t[2]
  /\ fq_target_fps \in 0..MaxTargetFps
  /\ fq_fmt = NULL
  /\ fq_fmt0 = NULL

findframe == <<sigvars, pollvars, ghostvars, chvars, rsvars, busvars, clvars, tmvars,
               iovars>>

format_find_by_timing_and_rate_call ==
  /\ fq_pc = "call"
  /\ fq_fmt' = sc0710_format_find_by_timing_and_rate(fq_timingH, fq_timingV, fq_target_fps)
  /\ fq_pc' = "rate_done"
  /\ UNCHANGED <<fq_timingH, fq_timingV, fq_target_fps, fq_fmt0>>
  /\ UNCHANGED findframe

format_find_by_timing_call ==
  /\ fq_pc = "rate_done"
  /\ fq_fmt0' = sc0710_format_find_by_timing(fq_timingH, fq_timingV)
  /\ fq_pc' = "done"
  /\ UNCHANGED <<fq_timingH, fq_timingV, fq_target_fps, fq_fmt>>
  /\ UNCHANGED findframe

FindNext == format_find_by_timing_and_rate_call \/ format_find_by_timing_call

PollIdle ==
  /\ signalMutex = "free"
  /\ poll_pc = "idle"
  /\ was_locked = FALSE
  /\ timing_changed = FALSE
  /\ fps_target = 0
  /\ ret = 0
  /\ rbuf = ZeroBlock
  /\ poll_exit = "none"
  /\ pre = [pixelLineH |-> 0, pixelLineV |-> 0, hint_interval |-> 0, hint_flags |-> 0]
  /\ n_sleep = 0
  /\ n_resync = 0
  /\ slept_first = FALSE
  /\ zero_run = 0
  /\ prev_run = 0
  /\ prev_ok_lock = "none"
  /\ scenario = 0
  /\ dma_was_running = FALSE
  /\ has_streaming_clients = FALSE
  /\ rs_log = << >>

PollInit == dev = DevInit /\ PollIdle

\* The poll thread starts on an attached device whose channel is stopped:
\* either nobody streams, or one client began streaming without a signal
\* (refcount 1, fmt NULL: the DMA start is skipped and only the timer is armed,
\* sc0710-video.c:900-924).
Init ==
  /\ PollInit
  /\ BusInit
  /\ ClientInit
  /\ FindIdle
  /\ IoctlIdle
  /\ ch_state = "STATE_STOPPED"
  /\ ch_lock = "free"
  /\ streaming_refcount \in {0, 1}
  /\ timer_pending = (streaming_refcount = 1)

PollNext ==
  \/ read_hdmi_status_lock
  \/ \E exit \in WriteReadExits :
       \E blk \in (IF exit \in ExitsAfterRead THEN StatusBlocks ELSE {ZeroBlock}) :
         read_hdmi_status_update(exit, blk)
  \/ read_hdmi_status_msleep
  \/ reset_dma_frame_sync_enter
  \/ reset_dma_frame_sync_scan_state
  \/ reset_dma_frame_sync_scan_refcount
  \/ reset_dma_frame_sync_stop_lock
  \/ reset_dma_frame_sync_stop
  \/ reset_dma_frame_sync_stop_timer
  \/ reset_dma_frame_sync_stop_wbm
  \/ reset_dma_frame_sync_stop_regs
  \/ reset_dma_frame_sync_resize
  \/ reset_dma_frame_sync_program
  \/ \E ok \in BOOLEAN : reset_dma_frame_sync_start(ok)

Next == PollNext

Spec == Init /\ [][Next]_vars

(***************************************************************************)
(* Specification of the bus transaction engine: the reader and the writer  *)
(* thread against an arbitrary peripheral.                                 *)
(***************************************************************************)
ChannelInit ==
  /\ ch_state = "STATE_STOPPED"
  /\ ch_lock = "free"
  /\ streaming_refcount = 0
  /\ timer_pending = FALSE

InitBus == PollInit /\ BusInit /\ ClientInit /\ ChannelInit /\ FindIdle /\ IoctlIdle

SpecBus == InitBus /\ [][BusNext]_vars

\* the engine is a straight-line routine: while a transaction is in
\* progress its thread keeps executing
SpecBusFair == SpecBus /\ WF_vars(BusStep)

(***************************************************************************)
(* Specification of bus serialization: the poll thread, the status reader  *)
(* and the MCU writer contend for the signal lock.                         *)
(***************************************************************************)
\* status blocks of the contention and streaming specifications
NoSignalBlock == StatusBlock(1125, 2200, 0, 0, 0, 0, 0)
Locked1080p60 == StatusBlock(1125, 2200, 1080, 1920, 60, 0, 0)
SmallBlocks == { NoSignalBlock, Locked1080p60 }

I2cNext ==
  \/ read_hdmi_status_lock
  \/ \E exit \in {"ok", "bad_completion"} : \E blk \in SmallBlocks :
       read_hdmi_status_update(exit, blk)
  \/ read_hdmi_status_msleep
  \/ reset_dma_frame_sync_enter
  \/ reset_dma_frame_sync_scan_state
  \/ reset_dma_frame_sync_scan_refcount
  \/ sc0710_i2c_writeread_lock
  \/ sc0710_i2c_writeread_unlock
  \/ sc0710_i2c_write_mcu_einval
  \/ \E sub \in SubAddrs, data \in Payloads : sc0710_i2c_write_mcu_lock(sub, data)
  \/ sc0710_i2c_write_mcu_unlock
  \/ BusStep

SpecI2c == InitBus /\ [][I2cNext]_vars

(***************************************************************************)
(* Specification of streaming: two capture clients start and stop          *)
(* streaming while the poll thread detects signal changes and resyncs.     *)
(***************************************************************************)
StreamNext ==
  \/ read_hdmi_status_lock
  \/ \E blk \in SmallBlocks : read_hdmi_status_update("ok", blk)
  \/ read_hdmi_status_msleep
  \/ reset_dma_frame_sync_enter
  \/ reset_dma_frame_sync_scan_state
  \/ reset_dma_frame_sync_scan_refcount
  \/ reset_dma_frame_sync_stop_lock
  \/ reset_dma_frame_sync_stop
  \/ reset_dma_frame_sync_stop_timer
  \/ reset_dma_frame_sync_stop_wbm
  \/ reset_dma_frame_sync_stop_regs
  \/ reset_dma_frame_sync_resize
  \/ reset_dma_frame_sync_program
  \/ \E ok \in BOOLEAN : reset_dma_frame_sync_start(ok)
  \/ ClientNext

SpecStream == InitBus /\ [][StreamNext]_vars

(***************************************************************************)
(* Specification of the client FIFOs: two capture clients queue buffers,   *)
(* start and stop streaming on a device that is unlocked or locked onto    *)
(* 1080p60; the poll thread does not run.                                  *)
(***************************************************************************)
LockedDev == locked_update(DevInit, FALSE, Locked1080p60)

InitFifo ==
  /\ dev \in {DevInit, LockedDev}
  /\ PollIdle
  /\ BusInit
  /\ ClientInit
  /\ ChannelInit
  /\ FindIdle
  /\ IoctlIdle

FifoNext ==
  \/ ClientNext
  \/ \E c \in Clients, b \in Bufs : sc0710_buf_queue(c, b)

SpecFifo == InitFifo /\ [][FifoNext]_vars

(***************************************************************************)
(* Specification of the end-to-end scenario: the poll thread on a source   *)
(* that reports lock byte 1 with the totals of 1080p and a 60 Hz hint, or  *)
(* an all-zero block, or no lock with timing bytes present.                *)
(***************************************************************************)
\* rbuf[8] = 1 (visible height 0x0401), totals (2200,1125), hint byte 0x3c
LockByte1Block == StatusBlock(1125, 2200, 1025, 1920, 60, 0, 0)

ScenarioBlocks == { LockByte1Block, ZeroBlock, NoSignalBlock }

ScenarioNext ==
  \/ read_hdmi_status_lock
  \/ \E exit \in WriteReadExits :
       \E blk \in (IF exit \in ExitsAfterRead THEN ScenarioBlocks ELSE {ZeroBlock}) :
         read_hdmi_status_update(exit, blk)
  \/ read_hdmi_status_msleep
  \/ reset_dma_frame_sync_enter
  \/ reset_dma_frame_sync_scan_state
  \/ reset_dma_frame_sync_scan_refcount
  \/ reset_dma_frame_sync_stop_lock
  \/ reset_dma_frame_sync_stop
  \/ reset_dma_frame_sync_stop_timer
  \/ reset_dma_frame_sync_stop_wbm
  \/ reset_dma_frame_sync_stop_regs
  \/ reset_dma_frame_sync_resize
  \/ reset_dma_frame_sync_program
  \/ \E ok \in BOOLEAN : reset_dma_frame_sync_start(ok)

SpecScenario == Init /\ [][ScenarioNext]_vars

(***************************************************************************)
(* Specification of placeholder delivery: the timer callback, one capture  *)
(* client that requests and queues buffers, starts and stops streaming     *)
(* (the other one stays idle), and the poll thread on a source that        *)
(* switches between 720p and no signal.                                    *)
(***************************************************************************)
Locked720p60 == StatusBlock(750, 1650, 720, 1280, 60, 0, 0)
TimerBlocks == { NoSignalBlock, Locked720p60 }

TimerNext ==
  \/ read_hdmi_status_lock
  \/ \E blk \in TimerBlocks : read_hdmi_status_update("ok", blk)
  \/ read_hdmi_status_msleep
  \/ reset_dma_frame_sync_enter
  \/ reset_dma_frame_sync_scan_state
  \/ reset_dma_frame_sync_scan_refcount
  \/ reset_dma_frame_sync_stop_lock
  \/ reset_dma_frame_sync_stop
  \/ reset_dma_frame_sync_stop_timer
  \/ reset_dma_frame_sync_stop_wbm
  \/ reset_dma_frame_sync_stop_regs
  \/ reset_dma_frame_sync_resize
  \/ reset_dma_frame_sync_program
  \/ \E ok \in BOOLEAN : reset_dma_frame_sync_start(ok)
  \/ ClientSteps("A", BOOLEAN)
  \/ sc0710_queue_setup("A")
  \/ \E b \in Bufs : vb2_qbuf("A", b)
  \/ TickNext

SpecTimer == InitBus /\ [][TimerNext]_vars

(***************************************************************************)
(* Specification of the client list and the FIFOs: the timer callback and  *)
(* two capture clients that open, close, request and queue buffers, start  *)
(* and stop streaming through ioctls.  The poll thread does not run; the   *)
(* device is in one of the signal states it can leave behind.              *)
(***************************************************************************)
Locked2160p60 == StatusBlock(2250, 4400, 2160, 3840, 60, 0, 0)

\* locked on 2160p60
Locked2160pDev == locked_update(DevInit, FALSE, Locked2160p60)

SignalStates ==
  { Locked2160pDev,                                   \* real signal
    unlocked_update(Locked2160pDev, NoSignalBlock) }  \* signal lost after 2160p

InitList ==
  /\ dev \in SignalStates
  /\ PollIdle
  /\ BusInit
  /\ ClientInit
  /\ ChannelInit
  /\ FindIdle
  /\ IoctlIdle

ListNext ==
  \/ \E c \in Clients : ClientSteps(c, {TRUE})
  \/ \E c \in Clients : sc0710_queue_setup(c)
  \/ \E c \in Clients, b \in Bufs : vb2_qbuf(c, b)
  \/ \E c \in Clients : sc0710_video_release(c)
  \/ \E c \in Clients : sc0710_video_open(c)
  \/ TickNext

SpecList == InitList /\ [][ListNext]_vars

(***************************************************************************)
(* Specification of the format lookups.                                    *)
(***************************************************************************)
InitFind == PollInit /\ BusInit /\ ClientInit /\ ChannelInit /\ FindInit /\ IoctlIdle

SpecFind == InitFind /\ [][FindNext]_vars

TypeOK == poll_pc \in {"idle", "i2c", "msleep", "resync", "rs_scan_state",
                       "rs_scan_refcount", "rs_stop_check", "rs_stop",
                       "rs_stop_timer", "rs_stop_wbm", "rs_stop_regs",
                       "rs_resize", "rs_program", "rs_start"}

(***************************************************************************)
(* Properties of the signal state machine.                                 *)
(***************************************************************************)
poll_returned == poll_pc = "idle" /\ poll_exit # "none"

read_lock == poll_returned /\ poll_exit = "ok" /\ rbuf[8] # 0

catalog_has(h, v) ==
  \E i \in 1..Len(formats) : formats[i].timingH = h /\ formats[i].timingV = v

\* C1: hysteresis.  Counting from a state whose no-timing counter is 0, the
\* cable is still reported connected after the first and the second
\* consecutive poll that reads no lock and all-zero timing bytes, and after
\* a poll with a nonzero timing byte that follows two of them; the third
\* consecutive one ends in NoDevice (cable_connected false, not locked, no
\* format).
C1_Hysteresis ==
  /\ zero_run \in {1, 2} => dev.cable_connected
  /\ zero_run = 3 => (~dev.cable_connected /\ ~dev.locked /\ dev.fmt = NULL)
  /\ (prev_run = 2 /\ poll_exit = "ok" /\ rbuf[8] = 0 /\ timing_present(rbuf))
       => dev.cable_connected

C1_Witness ==
  /\ zero_run = 3
  /\ prev_run = 2
  /\ poll_exit = "ok"
  /\ ~dev.cable_connected
  /\ dev.last_fmt # NULL

\* C2: a poll that found the device locked with nonzero totals and read a
\* nonzero lock byte with different totals marked a timing change, resolved
\* the format again for the new totals, slept once and then called the
\* resync orchestrator exactly once.
C2_TimingChangeResync ==
  ( /\ read_lock
    /\ was_locked
    /\ pre.pixelLineH > 0
    /\ pre.pixelLineV > 0
    /\ \/ new_pixelLineH(rbuf) # pre.pixelLineH
       \/ new_pixelLineV(rbuf) # pre.pixelLineV )
  => /\ timing_changed
     /\ n_sleep = 1
     /\ n_resync = 1
     /\ slept_first
     /\ dev.fmt = NULL <=> ~catalog_has(new_pixelLineH(rbuf), new_pixelLineV(rbuf))
     /\ dev.fmt # NULL =>
          /\ formats[dev.fmt].timingH = new_pixelLineH(rbuf)
          /\ formats[dev.fmt].timingV = new_pixelLineV(rbuf)

C2_Witness ==
  /\ read_lock
  /\ was_locked
  /\ pre.pixelLineH = 2200
  /\ pre.pixelLineV = 1125
  /\ new_pixelLineH(rbuf) = 4400
  /\ new_pixelLineV(rbuf) = 2250
  /\ timing_changed
  /\ n_resync = 1
  /\ formats[dev.fmt].width = 3840

\* C3 as stated: a poll that read a nonzero lock byte with the totals of the
\* previous locked state neither slept nor called the resync orchestrator,
\* whatever the other bytes of the block were.
C3_SameTotalsNoResync_Original ==
  ( /\ read_lock
    /\ was_locked
    /\ new_pixelLineH(rbuf) = pre.pixelLineH
    /\ new_pixelLineV(rbuf) = pre.pixelLineV )
  => (n_resync = 0 /\ n_sleep = 0)

\* C3 amended: a poll that read a nonzero lock byte with the totals and the
\* two rate-hint bytes (0x0c, 0x0d) of the previous locked state neither
\* slept nor called the resync orchestrator.
C3_SameTimingNoResync ==
  ( /\ read_lock
    /\ was_locked
    /\ new_pixelLineH(rbuf) = pre.pixelLineH
    /\ new_pixelLineV(rbuf) = pre.pixelLineV
    /\ rbuf[12] = pre.hint_interval
    /\ rbuf[13] = pre.hint_flags )
  => (n_resync = 0 /\ n_sleep = 0 /\ ~timing_changed)

C3_Witness ==
  /\ read_lock
  /\ was_locked
  /\ pre.pixelLineH = 2200
  /\ new_pixelLineH(rbuf) = 2200
  /\ new_pixelLineV(rbuf) = pre.pixelLineV
  /\ rbuf[12] = pre.hint_interval
  /\ rbuf[13] = pre.hint_flags
  /\ n_resync = 0

\* C4: a poll that read a nonzero lock byte, the previous completed read
\* having returned a zero lock byte, slept and then called the resync
\* orchestrator exactly once.
C4_NewLockResync ==
  (read_lock /\ prev_ok_lock = "zero")
  => (n_resync = 1 /\ n_sleep = 1 /\ slept_first)

\* C5: a poll whose bus transaction failed (address-ack timeout, read
\* timeout, bad completion code) leaves the Device Signal State as it was
\* and returns without resync.
C5_FailedReadNoUpdate ==
  [][ ( /\ poll_pc = "i2c"
        /\ poll_exit' \in {"addr_deadline", "addr_noack", "read_deadline", "bad_completion"} )
      => (dev' = dev /\ poll_pc' = "idle") ]_vars

(***************************************************************************)
(* Properties of the bus transaction engine.                               *)
(***************************************************************************)
\* C6: a write_read during which the status register never read 0x44
\* returned a failure to its caller, wrote no sub-address byte and stored
\* no data byte.
C6_AddressTimeoutFails ==
  (bus_pc = "done" /\ bus_owner = "rd" /\ ~saw_addr_ack)
  => /\ bus_ret < 0
     /\ Len(bus_writes) = 3
     /\ bus_rbuf = << >>

\* C7: every bus operation terminates whatever the peripheral answers and
\* whether or not a deadline elapses: an acknowledge wait reads the status
\* register at most 16 times, busread at most 32 times, no more than
\* response_length bytes are stored, and a transaction in progress always
\* reaches its return.
C7_BusTerminates ==
  /\ [](/\ bus_pc \in {"wait_addr", "wait_sub", "didack"} => (polls < 16 /\ cnt = 16 - polls)
        /\ bus_pc = "busread" => (polls < 32 /\ rd_cnt = 32 - polls)
        /\ polls <= 32
        /\ Len(bus_rbuf) <= i2c_readlen)
  /\ (bus_pc \notin {"idle", "done"}) ~> (bus_pc = "done")

C7_Witness ==
  /\ bus_pc = "done"
  /\ bus_exit = "addr_noack"
  /\ polls = 16
  /\ ~saw_addr_ack

(***************************************************************************)
(* Properties of bus serialization.                                        *)
(***************************************************************************)
\* C8: at most one bus transaction is in progress at any time.  A thread
\* that is executing __sc0710_i2c_writeread or sc0710_i2c_write (the poll
\* thread, the status reader, the MCU writer) holds the signal lock, and the
\* engine is only ever busy on behalf of the lock holder.
C8_BusUnderSignalLock ==
  /\ poll_pc = "i2c" => signalMutex = "poll"
  /\ \A t \in {"rd", "wr"} : thr_pc[t] \in {"locked", "in_bus"} => signalMutex = t
  /\ bus_pc # "idle" => bus_owner = signalMutex

C8_Witness ==
  /\ signalMutex = "rd"
  /\ bus_pc = "busread"
  /\ thr_pc["rd"] = "in_bus"
  /\ thr_ret["wr"] = 0 - EIO
  /\ poll_exit = "ok"
  /\ dev.locked

(***************************************************************************)
(* Properties of streaming.                                                *)
(***************************************************************************)
resize_step ==
  \/ poll_pc = "rs_resize" /\ poll_pc' = "rs_program"
  \/ \E c \in Clients : cl_pc[c] = "ss_resize" /\ cl_pc'[c] = "ss_start"

\* C9: every call of sc0710_dma_channels_resize, from the resync
\* orchestrator or from start_streaming, is made at a moment when the
\* channel is in run state stopped.
C9_ResizeOnlyWhenStopped ==
  [][ resize_step => ch_state = "STATE_STOPPED" ]_vars

\* C10: the channel's streaming_refcount is never negative.
C10_RefcountNonNegative == streaming_refcount >= 0

no_call_in_progress ==
  /\ poll_pc \in {"idle", "i2c", "msleep"}
  /\ \A c \in Clients : cl_pc[c] \in {"idle", "streaming"}

\* C11: whenever the streaming reference count is zero and no
\* start_streaming, stop_streaming or resync call is in progress, the
\* channel's DMA transfer engine is stopped.
C11_ZeroRefcountStopped ==
  (streaming_refcount = 0 /\ no_call_in_progress) => ch_state = "STATE_STOPPED"

\* C12: start_streaming goes on to DMA resize+start if and only if its
\* increment moved the reference count from 0 to 1 and a format is resolved
\* when it decides; stop_streaming goes on to cancel the timer and stop the
\* DMA if and only if its decrement moved the reference count to 0.
C12_StartStopOnEdgeOnly ==
  [][ \A c \in Clients :
        /\ (cl_pc[c] = "ss_check" /\ cl_pc'[c] # "ss_check")
             => (cl_pc'[c] = "ss_resize" <=> (cl_refcount[c] = 1 /\ dev.fmt # NULL))
        /\ (cl_pc[c] = "st_dec" /\ cl_pc'[c] # "st_dec")
             => (cl_pc'[c] = "st_clamp" <=> streaming_refcount' = 0) ]_vars

(***************************************************************************)
(* Properties of the client FIFOs.                                         *)
(***************************************************************************)
\* clients whose increment of the reference count is not yet undone
holders ==
  { c \in Clients : cl_pc[c] \in {"ss_check", "ss_resize", "ss_start", "ss_fail",
                                  "ss_fail_dec", "ss_timer", "streaming", "st_dec"} }

\* C13: a start_streaming call whose resize or start call failed returns the
\* error: it does not return success after a failed resize, and at its error
\* return the client's streaming flag is clear, the reference count no
\* longer counts the caller, the caller's FIFO is empty with its buffers
\* handed back, and the call has not armed the delivery timer.
C13_StartFailureRestores ==
  [][ \A c \in Clients :
        /\ (cl_pc[c] = "ss_timer" /\ cl_pc'[c] = "streaming") => cl_resize_ok[c]
        /\ (cl_pc[c] = "ss_fail_dec" /\ cl_pc'[c] = "idle")
             => /\ ~cl_streaming'[c]
                /\ streaming_refcount' = Cardinality(holders')
                /\ cl_fifo'[c] = << >>
                /\ \A b \in fifo_bufs(cl_fifo[c]) : buf_status'[c][b] = "QUEUED"
                /\ timer_pending' = timer_pending ]_vars

stop_pcs == {"st_dec", "st_clamp", "st_timer", "st_dma_stop", "st_flush"}

\* C14: stop_streaming completes every buffer still in the caller's FIFO
\* with error status and returns with that FIFO empty; no step of the call
\* changes the FIFO or the buffers of another client.
C14_StopFlushesOwnFifo ==
  [][ \A c \in Clients :
        /\ (cl_pc[c] = "st_flush" /\ cl_pc'[c] = "idle")
             => /\ cl_fifo'[c] = << >>
                /\ \A b \in Bufs :
                     buf_status'[c][b] = IF b \in fifo_bufs(cl_fifo[c]) THEN "ERROR"
                                         ELSE buf_status[c][b]
        /\ ((cl_pc[c] \in stop_pcs \/ cl_pc'[c] \in stop_pcs) /\ cl_pc'[c] # cl_pc[c])
             => \A d \in Clients \ {c} :
                  cl_fifo'[d] = cl_fifo[d] /\ buf_status'[d] = buf_status[d] ]_vars

C14_Witness ==
  /\ cl_pc["A"] = "idle"
  /\ cl_fifo["A"] = << >>
  /\ buf_status["A"][1] = "ERROR"
  /\ cl_pc["B"] = "streaming"
  /\ cl_fifo["B"] = <<1>>

(***************************************************************************)
(* Properties of format resolution.                                        *)
(***************************************************************************)
\* C15: at the end of a poll, a resolved format has the visible width and
\* height that the poll measured from the status block and stored in
\* dev->width and dev->height.
C15_FormatGeometryMatches ==
  (poll_returned /\ dev.fmt # NULL)
  => /\ formats[dev.fmt].width = dev.width
     /\ formats[dev.fmt].height = dev.height

(***************************************************************************)
(* Properties of signal-state access.                                      *)
(***************************************************************************)
\* C16: a step that reads dev->fmt is taken by a thread that holds the
\* signal lock: the format test at the head of the resync orchestrator and
\* the format test of start_streaming.
C16_SignalStateReadUnderLock ==
  [][ /\ (poll_pc = "resync" /\ poll_pc' # "resync") => signalMutex = "poll"
      /\ \A c \in Clients :
           (cl_pc[c] = "ss_check" /\ cl_pc'[c] # "ss_check") => signalMutex = c ]_vars

\* C17: once the last-known-good format is non-null no step sets it back to
\* null, and whenever a format is resolved the last-known-good format is
\* that format.
C17_LastFmtSticky ==
  /\ [](dev.fmt # NULL => dev.last_fmt = dev.fmt)
  /\ [][dev.last_fmt # NULL => dev'.last_fmt # NULL]_vars

C17_Witness ==
  /\ poll_returned
  /\ ~dev.cable_connected
  /\ ~dev.locked
  /\ dev.fmt = NULL
  /\ dev.last_fmt # NULL
  /\ formats[dev.last_fmt].width = 3840

(***************************************************************************)
(* Properties of the format lookups.                                       *)
(***************************************************************************)
rate_of(e) == formats[e].fpsX100 \div 100

has_totals(e, h, v) == formats[e].timingH = h /\ formats[e].timingV = v

abs_diff(a, b) == IF a > b THEN a - b ELSE b - a

\* C18: the lookup by timing and rate, called with the totals and the own
\* rate (fpsX100/100) of a catalog entry, returns exactly that entry.
C18_OwnRateReturnsEntry ==
  fq_pc # "call"
  => \A e \in 1..Len(formats) :
       (has_totals(e, fq_timingH, fq_timingV) /\ rate_of(e) = fq_target_fps)
       => fq_fmt = e

\* C19: for a nonzero target rate the lookup returns null exactly when no
\* entry has the totals, and otherwise an entry with the totals whose integer
\* rate is at least as close to the target as that of every entry with the
\* totals; (2200, 1125, 50) yields the 60 Hz 1920x1080 entry.
C19_ClosestRate ==
  (fq_pc # "call" /\ fq_target_fps # 0)
  => /\ fq_fmt = NULL <=> ~catalog_has(fq_timingH, fq_timingV)
     /\ fq_fmt # NULL =>
          /\ has_totals(fq_fmt, fq_timingH, fq_timingV)
          /\ \A e \in 1..Len(formats) :
               has_totals(e, fq_timingH, fq_timingV)
               => abs_diff(rate_of(fq_fmt), fq_target_fps)
                    <= abs_diff(rate_of(e), fq_target_fps)
     /\ (fq_timingH = 2200 /\ fq_timingV = 1125 /\ fq_target_fps = 50)
          => (formats[fq_fmt].width = 1920 /\ formats[fq_fmt].height = 1080
              /\ formats[fq_fmt].fpsX100 = 6000)

C19_Witness ==
  /\ fq_pc = "done"
  /\ fq_timingH = 2200
  /\ fq_timingV = 1125
  /\ fq_target_fps = 50
  /\ fq_fmt # NULL
  /\ formats[fq_fmt].fpsX100 = 6000

\* C20: with target rate 0 the lookup by timing and rate returns what the
\* lookup by timing returns: the first entry in table order with the totals,
\* or null when there is none.
C20_ZeroRateIsFirstMatch ==
  (fq_pc = "done" /\ fq_target_fps = 0)
  => /\ fq_fmt = fq_fmt0
     /\ fq_fmt0 = NULL <=> ~catalog_has(fq_timingH, fq_timingV)
     /\ fq_fmt0 # NULL =>
          /\ has_totals(fq_fmt0, fq_timingH, fq_timingV)
          /\ \A e \in 1..(fq_fmt0 - 1) : ~has_totals(e, fq_timingH, fq_timingV)

C20_Witness ==
  /\ fq_pc = "done"
  /\ fq_target_fps = 0
  /\ fq_timingH = 800
  /\ fq_timingV = 525
  /\ fq_fmt = 1
  /\ fq_fmt0 = 1

\* C30: after a successful poll that read a zero lock byte the device is not
\* in the Locked state; when the timing bytes were all zero and fewer than 3
\* consecutive such polls have been counted, the state is NoSignal: the
\* locked flag is false and cable_connected is true.
C30_ZeroLockByteUnlocked ==
  (poll_returned /\ poll_exit = "ok" /\ rbuf[8] = 0)
    => /\ ~dev.locked
       /\ (~timing_present(rbuf) /\ dev.unlocked_no_timing_count \in 1..2)
            => dev.cable_connected

\* C24: end-to-end scenario.  The poll that begins in the attach state and
\* reads lock byte 1, totals (2200,1125) and a 60 Hz hint resolves the format
\* named 1920x1080p60 and sets locked; when it has returned it has slept once
\* and then called resync once.  Each of the three following polls that read
\* lock byte 0 and all-zero timing bytes sleeps and resyncs not at all, and
\* the third ends with cable_connected false and the format cleared.
C24_EndToEnd ==
  /\ scenario = 1 => /\ dev.locked
                     /\ dev.fmt # NULL
                     /\ formats[dev.fmt].name = "1920x1080p60"
  /\ (scenario = 1 /\ poll_pc = "idle")
       => (n_sleep = 1 /\ n_resync = 1 /\ slept_first)
  /\ scenario \in 2..4 => /\ poll_pc \in {"idle", "i2c"}
                          /\ poll_pc = "idle" => (n_sleep = 0 /\ n_resync = 0)
  /\ scenario = 4 => (~dev.cable_connected /\ dev.fmt = NULL)

C24_Witness ==
  /\ scenario = 4
  /\ poll_pc = "idle"
  /\ ~dev.cable_connected
  /\ dev.fmt = NULL
  /\ dev.last_fmt # NULL

C22_PlaceholderFitsPlane ==
  last_fill # NoFill
    => /\ last_fill.payload <= last_fill.plane
       /\ last_fill.width * 2 * last_fill.height <= last_fill.plane

\* C23: the delivery timer stays armed for as long as any client is
\* streaming, so that a streaming client with a queued buffer receives a
\* placeholder while no real signal is delivered: whenever a client is
\* streaming and the timer callback is not running, the timer is pending.
C23_TimerArmedWhileStreaming ==
  ((\E c \in Clients : cl_pc[c] = "streaming") /\ tick_pc = "idle")
    => timer_pending

(***************************************************************************)
(* Properties of the resync orchestrator.                                  *)
(***************************************************************************)
\* a step of the poll thread inside sc0710_reset_dma_frame_sync
resync_step(from) == poll_pc = from /\ poll_pc' # from

\* C25: if no format is resolved when sc0710_reset_dma_frame_sync is called,
\* or its scan finds no streaming reference count above zero, the call
\* returns having changed nothing: no register write and no resize or start
\* call is made, and the run state, the channel lock, the reference count and
\* the delivery timer are left as they were.
C25_ResyncNoOp ==
  [][ /\ (resync_step("resync") /\ dev.fmt = NULL)
          => (poll_pc' = "idle" /\ rs_log' = << >> /\ UNCHANGED <<chvars, dev>>)
      /\ resync_step("rs_scan_state")
          => (rs_log' = << >> /\ UNCHANGED <<chvars, dev>>)
      /\ (resync_step("rs_scan_refcount") /\ ~(streaming_refcount > 0))
          => (poll_pc' = "idle" /\ rs_log' = << >> /\ UNCHANGED <<chvars, dev>>)
    ]_vars

\* a resync called with a resolved format has returned early: the channel
\* had no streaming client
C25_Witness ==
  /\ poll_pc = "idle"
  /\ n_resync = 1
  /\ dev.fmt # NULL
  /\ ~has_streaming_clients
  /\ streaming_refcount = 0
  /\ ch_state = "STATE_STOPPED"

(***************************************************************************)
(* Properties of the locks.                                                *)
(***************************************************************************)
\* C26: a poll holds the signal lock from its mutex_lock to the mutex_unlock
\* of the return path it takes (bus failure, no transition, signal loss,
\* lock or timing-change transition) and releases it exactly there: the
\* poller holds the lock exactly while the bus transaction and the state
\* update are pending, never during the stabilization sleep or the resync,
\* and a poll that resyncs returns to idle without taking the lock again.
C26_SignalLockPerPoll ==
  /\ [](poll_pc = "i2c" <=> signalMutex = "poll")
  /\ [][ /\ (signalMutex # "poll" /\ signalMutex' = "poll")
             => (poll_pc = "idle" /\ poll_pc' = "i2c")
         /\ (signalMutex = "poll" /\ signalMutex' # "poll")
             => (poll_pc = "i2c" /\ poll_pc' \in {"idle", "msleep"})
         /\ (poll_pc \notin {"idle", "i2c"} /\ poll_pc' = "idle")
             => signalMutex' # "poll"
       ]_vars

\* the poll is inside the resync it triggered after the sleep, and the
\* status reader holds the signal lock
C26_Witness ==
  /\ poll_pc = "rs_scan_refcount"
  /\ n_sleep = 1
  /\ poll_exit = "ok"
  /\ signalMutex = "rd"

StopEvents ==
  <<"dma_control_w1c", "timer_delete_sync", "wbm_clear",
    "completed_descriptor_count", "sg_start_h", "sg_start_l", "sg_adj",
    "STATE_STOPPED">>

stop_phase_pcs == {"rs_stop", "rs_stop_timer", "rs_stop_wbm", "rs_stop_regs"}

\* C28: the resync stop phase of a running channel runs entirely under the
\* channel lock and its events occur in this order: hardware stop command,
\* synchronous cancel of the delivery timer (no callback is running when it
\* returns), write-back slots zeroed, completed-descriptor counter and
\* scatter-gather registers reset, run state set to stopped.  No write-back
\* slot is zeroed before the stop command and the timer cancel, and no
\* scatter-gather register is reset before the slots are zeroed.
C28_StopPhaseOrder ==
  /\ [](poll_pc \in stop_phase_pcs => ch_lock = "poll")
  /\ [](poll_pc = "rs_stop" => rs_log = << >>)
  /\ [](poll_pc = "rs_stop_timer" => rs_log = SubSeq(StopEvents, 1, 1))
  /\ [](poll_pc = "rs_stop_wbm" => rs_log = SubSeq(StopEvents, 1, 2))
  /\ [](poll_pc = "rs_stop_regs" => rs_log = SubSeq(StopEvents, 1, 3))
  /\ []((poll_pc = "rs_resize" /\ rs_log # << >>) => rs_log = StopEvents)
  /\ [][ /\ resync_step("rs_stop_timer") => (~timer_pending' /\ tick_pc = "idle")
         /\ resync_step("rs_stop_regs")
              => (ch_state' = "STATE_STOPPED" /\ ch_lock = "poll" /\ ch_lock' = "free")
       ]_vars

\* the stop phase has just finished on a channel whose timer was armed when
\* the phase began
C28_Witness ==
  /\ poll_pc = "rs_resize"
  /\ rs_log = StopEvents
  /\ ch_state = "STATE_STOPPED"
  /\ ~timer_pending
  /\ \E c \in Clients : cl_pc[c] = "streaming"

\* register writes of the resync program phase, in order
ProgramEvents ==
  <<"BAR0_00C8=height", "BAR0_00D0=0x4100", "0xcc=0", "0xdc=0",
    "BAR0_00D0=0x4300", "BAR0_00D0=0x4100">>

\* C29: a resync that is not a no-op performs stop (only if the channel is
\* running when phase 1 examines it), then resize, then program (frame height
\* followed by the control-register toggle sequence), then start, each exactly
\* once: start is never invoked before resize, and resize and start are
\* invoked also when no channel was running.
C29_ResyncPhaseOrder ==
  /\ [](poll_pc = "rs_resize" => rs_log \in {<< >>, StopEvents})
  /\ [](poll_pc = "rs_program"
          => rs_log \in {<<"resize">>, StopEvents \o <<"resize">>})
  /\ [](poll_pc = "rs_start"
          => rs_log \in {<<"resize">> \o ProgramEvents,
                         StopEvents \o <<"resize">> \o ProgramEvents})
  /\ [][ /\ resync_step("rs_resize") => poll_pc' = "rs_program"
         /\ resync_step("rs_program") => poll_pc' = "rs_start"
         /\ resync_step("rs_start") => poll_pc' = "idle"
         /\ (poll_pc' \in {"rs_stop_check", "rs_resize"} /\ poll_pc = "rs_scan_refcount")
              => streaming_refcount > 0
       ]_vars

\* the resync is about to start DMA on a channel that was not running: a
\* client had started streaming without a signal
C29_Witness ==
  /\ poll_pc = "rs_start"
  /\ rs_log = <<"resize">> \o ProgramEvents
  /\ ~dma_was_running
  /\ ch_state = "STATE_STOPPED"
  /\ \E c \in Clients : cl_pc[c] = "streaming"

(***************************************************************************)
(* Properties of one tick of the delivery timer.                           *)
(***************************************************************************)
\* the tick visits the client c: the step of sc0710_vid_timeout that leaves
\* the FIFO of c, entered after the streaming test of c succeeded
tick_visits(c) == tick_pc = "fifo" /\ tick_pc' = "list" /\ Head(tick_left) = c

\* the tick passes the client c over: the step of the list walk after the
\* streaming test of c failed
tick_skips(c) ==
  /\ tick_pc = "list" /\ tick_pc' = "list"
  /\ tick_left # << >> /\ Head(tick_left) = c /\ tick_left' = Tail(tick_left)

\* the buffers of client c are as they were
client_untouched(c) == cl_fifo'[c] = cl_fifo[c] /\ buf_status'[c] = buf_status[c]

HintIntervals == {0, 59, 60, 61, 119, 120, 121, 255}
HintFlags == {0, 1, 16, 17, 80, 81, 144, 255}

HintBlocks ==
  { StatusBlock(1125, 2200, 1080, 1920, i, f, 0) : i \in HintIntervals, f \in HintFlags }

HintNext ==
  \/ read_hdmi_status_lock
  \/ \E blk \in HintBlocks \cup {NoSignalBlock} : read_hdmi_status_update("ok", blk)
  \/ read_hdmi_status_msleep
  \/ reset_dma_frame_sync_enter
  \/ reset_dma_frame_sync_scan_state
  \/ reset_dma_frame_sync_scan_refcount
  \/ reset_dma_frame_sync_stop_lock
  \/ reset_dma_frame_sync_stop
  \/ reset_dma_frame_sync_stop_timer
  \/ reset_dma_frame_sync_stop_wbm
  \/ reset_dma_frame_sync_stop_regs
  \/ reset_dma_frame_sync_resize
  \/ reset_dma_frame_sync_program
  \/ \E ok \in BOOLEAN : reset_dma_frame_sync_start(ok)

SpecHint == Init /\ [][HintNext]_vars

(***************************************************************************)
(* Specification of the catalog timings: the poll thread alone, reading    *)
(* for every catalog entry a status block that carries the entry's totals  *)
(* and visible geometry (60 Hz hint), and losing the signal in between.    *)
(***************************************************************************)
CatalogBlock(e) ==
  StatusBlock(formats[e].timingV, formats[e].timingH, formats[e].height,
              formats[e].width, 60, 0, 0)

CatalogBlocks == { CatalogBlock(e) : e \in 1..Len(formats) }

CatalogNext ==
  \/ read_hdmi_status_lock
  \/ \E blk \in CatalogBlocks \cup {NoSignalBlock} : read_hdmi_status_update("ok", blk)
  \/ read_hdmi_status_msleep
  \/ reset_dma_frame_sync_enter
  \/ reset_dma_frame_sync_scan_state
  \/ reset_dma_frame_sync_scan_refcount
  \/ reset_dma_frame_sync_stop_lock
  \/ reset_dma_frame_sync_stop
  \/ reset_dma_frame_sync_stop_timer
  \/ reset_dma_frame_sync_stop_wbm
  \/ reset_dma_frame_sync_stop_regs
  \/ reset_dma_frame_sync_resize
  \/ reset_dma_frame_sync_program
  \/ \E ok \in BOOLEAN : reset_dma_frame_sync_start(ok)

SpecCatalog == Init /\ [][CatalogNext]_vars

(***************************************************************************)
(* Specification of the timer against streaming calls that are not         *)
(* serialized: two clients start and stop streaming through ioctls and     *)
(* through read() / release (without ch->lock) while the timer callback    *)
(* runs and the poll thread follows a signal that comes and goes.  No      *)
(* buffers are queued.                                                     *)
(***************************************************************************)
RearmNext ==
  \/ read_hdmi_status_lock
  \/ \E blk \in TimerBlocks : read_hdmi_status_update("ok", blk)
  \/ read_hdmi_status_msleep
  \/ reset_dma_frame_sync_enter
  \/ reset_dma_frame_sync_scan_state
  \/ reset_dma_frame_sync_scan_refcount
  \/ reset_dma_frame_sync_stop_lock
  \/ reset_dma_frame_sync_stop
  \/ reset_dma_frame_sync_stop_timer
  \/ reset_dma_frame_sync_stop_wbm
  \/ reset_dma_frame_sync_stop_regs
  \/ reset_dma_frame_sync_resize
  \/ reset_dma_frame_sync_program
  \/ \E ok \in BOOLEAN : reset_dma_frame_sync_start(ok)
  \/ ClientSteps("A", BOOLEAN)
  \/ ClientSteps("B", {TRUE})
  \/ TickNext

SpecRearm == InitBus /\ [][RearmNext]_vars

(***************************************************************************)
(* Properties of the re-arming of the delivery timer.                      *)
(***************************************************************************)
\* client c is streaming: its streaming flag is set, or it is inside a
\* start_streaming or stop_streaming call that has not returned
streaming_or_in_call(c) == cl_streaming[c] \/ cl_pc[c] \notin {"idle", "closed"}

\* C32: a tick re-arms the delivery timer only if a client is streaming at
\* that tick: the list walk notes a streaming client only where it finds a
\* set streaming flag, the end of the walk arms the timer only if the walk
\* noted one, and the timer fires only while some client is streaming.
\* Once the stop_streaming call of the last streaming client has returned
\* (no client is streaming or inside a call, the callback is not running)
\* the timer is not pending, so it cannot fire before a client starts
\* streaming again.
C32_RearmOnlyWhileStreaming ==
  /\ [][ /\ (~any_streaming /\ any_streaming')
            => tick_pc = "list" /\ tick_left # << >> /\ cl_streaming[Head(tick_left)]
         /\ (tick_pc = "rearm" /\ tick_pc' = "idle" /\ ~timer_pending /\ timer_pending')
            => any_streaming
         /\ (tick_pc = "idle" /\ tick_pc' # "idle")
            => timer_pending /\ \E c \in Clients : streaming_or_in_call(c)
       ]_vars
  /\ []( (tick_pc = "idle" /\ \A c \in Clients : ~streaming_or_in_call(c))
           => ~timer_pending )

(***************************************************************************)
(* Properties of the MCU write transaction.                                *)
(***************************************************************************)
\* the data-register writes that send the bytes of w, the stop bit (bit 9)
\* on the last one
framed_bytes(w) ==
  [k \in 1..Len(w) |-> <<"BAR0_3108", w[k] + (IF k = Len(w) THEN 512 ELSE 0)>>]

\* the register writes of the transaction after the reset, the enable and the
\* start-bit address byte
sent_after_address == SubSeq(bus_writes, 4, Len(bus_writes))

\* C33: when sc0710_i2c_write_mcu(subaddr, data, len) with len <= 15 has run
\* its bus transaction, the bytes sent after the start-bit device-address
\* byte are the sub-address followed by the payload bytes in order, with the
\* stop bit on exactly the final byte; on a missing acknowledgment the result
\* is -EIO and the bytes sent are a prefix of that sequence.
C33_WriteMcuByteSequence ==
  (bus_owner = "wr" /\ bus_pc = "done")
    => /\ bus_writes[3] = <<"BAR0_3108", 256 + I2C_DEV__ARM_MCU>>
       /\ bus_exit = "write_ok"
            => bus_ret = 0 /\ sent_after_address = framed_bytes(wbuf)
       /\ bus_exit = "write_noack"
            => /\ bus_ret = 0 - EIO
               /\ Len(sent_after_address) <= Len(wbuf)
               /\ sent_after_address =
                    SubSeq(framed_bytes(wbuf), 1, Len(sent_after_address))

(***************************************************************************)
(* Properties of the result of the write-read transaction.                 *)
(***************************************************************************)
\* C34: __sc0710_i2c_writeread returns success (0) only if exactly
\* response_length bytes were stored into the response buffer and the final
\* read of the status register gave an accepted completion code (0xc8 or
\* 0xcc); a transaction that completes the read phase with any other final
\* status returns the bad-completion failure (-1).
C34_SuccessOnlyAfterCompletion ==
  (bus_pc = "done" /\ bus_owner = "rd")
    => /\ bus_ret = 0
            => Len(bus_rbuf) = i2c_readlen /\ bus_exit = "ok"
       /\ (Len(bus_rbuf) = i2c_readlen /\ bus_exit # "ok")
            => bus_exit = "bad_completion" /\ bus_ret = 0 - 1

(***************************************************************************)
(* Properties of the rate hint.                                            *)
(***************************************************************************)
\* the poll in progress or just returned computed a target frame rate: it
\* read a nonzero lock byte on first lock or on a timing change
rate_hint_computed ==
  /\ poll_pc # "i2c"
  /\ poll_exit = "ok"
  /\ rbuf[8] # 0
  /\ (timing_changed \/ ~was_locked)

\* C35 as stated: 120 for interval 0x78 with flags 0x10, 30 for interval
\* 0x78 with flags 0x50, 60 for interval 0x3C, and 0 (no hint) for every
\* other pair of byte values.
C35_RateHintTable_Original ==
  rate_hint_computed
    => fps_target = (CASE rbuf[12] = 120 /\ rbuf[13] = 16 -> 120
                       [] rbuf[12] = 120 /\ rbuf[13] = 80 -> 30
                       [] rbuf[12] = 60 -> 60
                       [] OTHER -> 0)

\* C35, amended: the target frame rate is 120 when the interval byte is 0x78
\* and the flags byte is 0x10, 30 when the interval byte is 0x78 and the
\* flags byte has any other value (0x50 included), 60 when the interval byte
\* is 0x3C whatever the flags byte is, and 0 (no hint) for every other
\* interval byte; the format is resolved with that rate.
C35_RateHintTable ==
  rate_hint_computed
    => /\ (rbuf[12] = 120 /\ rbuf[13] = 16) => fps_target = 120
       /\ (rbuf[12] = 120 /\ rbuf[13] # 16) => fps_target = 30
       /\ rbuf[12] = 60 => fps_target = 60
       /\ rbuf[12] \notin {120, 60} => fps_target = 0
       /\ dev.fmt = sc0710_format_find_by_timing_and_rate(
                      dev.pixelLineH, dev.pixelLineV, fps_target)

\* interval 0x78 with a flags byte that is neither 0x10 nor 0x50 resolved
\* the 30 Hz entry of the 1080p totals
C35_Witness ==
  /\ rate_hint_computed
  /\ rbuf[12] = 120
  /\ rbuf[13] = 144
  /\ fps_target = 30
  /\ dev.fmt # NULL
  /\ formats[dev.fmt].fpsX100 = 3000

(***************************************************************************)
(* Properties of the resolved format against the measured totals.          *)
(***************************************************************************)
\* C36: at the end of every poll (and at every other moment) a resolved
\* format has the measured totals the device stores: if dev->fmt is not
\* null, its (timingH, timingV) equals (pixelLineH, pixelLineV).  When the
\* measured totals change the format is resolved again or cleared, never
\* left stale.
C36_FormatMatchesTotals ==
  dev.fmt # NULL
    => /\ formats[dev.fmt].timingH = dev.pixelLineH
       /\ formats[dev.fmt].timingV = dev.pixelLineV

\* a poll of a locked device read new totals and returned with the format
\* of the new totals resolved
C36_Witness ==
  /\ poll_returned
  /\ was_locked
  /\ timing_changed
  /\ pre.pixelLineH = 2200 /\ pre.pixelLineV = 1125
  /\ dev.pixelLineH = 4400 /\ dev.pixelLineV = 2250
  /\ dev.fmt # NULL
  /\ formats[dev.fmt].timingH = 4400
  /\ formats[dev.fmt].timingV = 2250

\* C37: whenever a poll has ended with the device locked and with measured
\* totals for which the catalog has an entry, a format is resolved: a timing
\* of the catalog is never left locked but without a format, whatever the
\* earlier polls read.
C37_CatalogTimingResolved ==
  (poll_returned /\ dev.locked /\ catalog_has(dev.pixelLineH, dev.pixelLineV))
    => dev.fmt # NULL

(***************************************************************************)
(* Properties of the lock byte against the catalog.                        *)
(***************************************************************************)
\* C38: for every entry of the format catalog, a poll from the unlocked
\* state that reads a status block carrying the entry's totals and visible
\* width and height (the height in bytes 8-9, low byte first, byte 8 being
\* the lock-status byte as well) ends with the device locked and with a
\* resolved format that has the entry's totals.
C38_CatalogEntryLocks ==
  \A e \in 1..Len(formats) :
    (poll_pc # "i2c" /\ poll_exit = "ok" /\ ~was_locked /\ rbuf = CatalogBlock(e))
      => /\ dev.locked
         /\ dev.fmt # NULL
         /\ formats[dev.fmt].timingH = formats[e].timingH
         /\ formats[dev.fmt].timingV = formats[e].timingV

(***************************************************************************)
(* Properties of the streaming reference count.                            *)
(***************************************************************************)
\* C39: whenever no start_streaming or stop_streaming call is in progress,
\* the channel's streaming_refcount equals the number of its clients whose
\* streaming flag is set, whatever the interleaving of the start and stop
\* calls of different clients was.
C39_RefcountCountsStreamers ==
  (\A c \in Clients : cl_pc[c] \in {"idle", "streaming", "closed"})
    => streaming_refcount = Cardinality({ c \in Clients : cl_streaming[c] })

(***************************************************************************)
(* Format query ioctls (sc0710-video.c:572-598, 742-809).  Each handler    *)
(* tests dev->fmt for NULL and reads dev->fmt again to dereference it.  It *)
(* runs under ch->lock (video_ioctl2) but not under dev->signalMutex, and  *)
(* dev->fmt is a plain field the poll thread writes: the second read races *)
(* with the poll, and a build may reload dev->fmt or reuse the value the   *)
(* test loaded.                                                            *)
(***************************************************************************)
FormatIoctls == {"g_dv_timings", "query_dv_timings", "enum_framesizes",
                 "enum_frameintervals", "g_parm"}

ioframe == <<sigvars, pollvars, ghostvars, rsvars, busvars, clvars, findvars, tmvars>>

\* values the read of dev->fmt at the dereference can yield: the value the
\* test loaded (kept in a register) or the field as it is now (reloaded)
fmt_at_use(tested, current) == {tested, current}

\* if (dev->fmt == NULL) return -EINVAL / -ENODATA;  g_parm: if (dev->fmt) ...
\* else 1/30.  With a NULL format the handler returns without a dereference.
vidioc_fmt_test(op) ==
  /\ ioctl_pc = "idle"
  /\ mutex_lock_acquires(ch_lock)
  /\ ioctl_op' = op
  /\ ioctl_tested' = dev.fmt
  /\ ioctl_used' = << >>
  /\ IF dev.fmt = NULL
     THEN /\ ioctl_pc' = "idle"
          /\ UNCHANGED ch_lock
     ELSE /\ ioctl_pc' = "use"
          /\ ch_lock' = "ioctl"
  /\ UNCHANGED <<ch_state, streaming_refcount, timer_pending>>
  /\ UNCHANGED ioframe

\* *timings = dev->fmt->dv_timings;  fsize->discrete.width = dev->fmt->width;
\* fival->discrete.numerator = dev->fmt->fpsden;  ...  return 0;
vidioc_fmt_use ==
  /\ ioctl_pc = "use"
  /\ \E f \in fmt_at_use(ioctl_tested, dev.fmt) : ioctl_used' = <<f>>
  /\ ioctl_pc' = "idle"
  /\ ch_lock' = "free"
  /\ UNCHANGED <<ioctl_op, ioctl_tested, ch_state, streaming_refcount, timer_pending>>
  /\ UNCHANGED ioframe

(***************************************************************************)
(* Specification of the format query ioctls against the poll thread, which *)
(* follows a signal that comes and goes.                                   *)
(***************************************************************************)
IoctlNext ==
  \/ read_hdmi_status_lock
  \/ \E blk \in TimerBlocks : read_hdmi_status_update("ok", blk)
  \/ read_hdmi_status_msleep
  \/ reset_dma_frame_sync_enter
  \/ reset_dma_frame_sync_scan_state
  \/ reset_dma_frame_sync_scan_refcount
  \/ reset_dma_frame_sync_stop_lock
  \/ reset_dma_frame_sync_stop
  \/ reset_dma_frame_sync_stop_timer
  \/ reset_dma_frame_sync_stop_wbm
  \/ reset_dma_frame_sync_stop_regs
  \/ reset_dma_frame_sync_resize
  \/ reset_dma_frame_sync_program
  \/ \E ok \in BOOLEAN : reset_dma_frame_sync_start(ok)
  \/ \E op \in FormatIoctls : vidioc_fmt_test(op)
  \/ vidioc_fmt_use

SpecIoctl == Init /\ [][IoctlNext]_vars

(***************************************************************************)
(* Properties of the unlocked readers of dev->fmt.                         *)
(***************************************************************************)
\* C40: a path that tests dev->fmt for NULL and then reads dev->fmt again
\* without the signal lock never dereferences a NULL format, even when the
\* poll clears the format between the test and the use: no value a format
\* query ioctl dereferenced is NULL, and the resync programs the height
\* register exactly when the format it holds is not NULL.
C40_NoNullFormatDereference ==
  /\ \A i \in DOMAIN ioctl_used : ioctl_used[i] # NULL
  /\ (poll_pc = "rs_start" /\ dev.fmt = NULL) => "BAR0_00C8=height" \notin
       { rs_log[i] : i \in DOMAIN rs_log }

====
